---- MODULE Spec2Model ----
(***************************************************************************)
(* Goodluck Sharing: the transfer engine of the two application revisions. *)
(*                                                                         *)
(*   v2.1  src/Goodluck Sharing app/goodluck_sharing.py                    *)
(*         queue + worker threads (start_transfer, _process_queue,         *)
(*         _check_transfers, _perform_send), receive sessions              *)
(*   v3.0  src/goodluck_sharing.py                                         *)
(*         receive sessions (_handle_incoming_transfer), global controls   *)
(*                                                                         *)
(* Spec      the send side of v2.1: the Tk main thread (start_transfer,    *)
(*           the root.after callbacks, pause/resume/cancel) interleaved    *)
(*           with the worker threads running _perform_send.                *)
(* SpecRecv  the receive sessions of either revision.                      *)
(* SpecDup, SpecDupFile, SpecDupRace  the DuplicateManager: its calls one  *)
(*           after another, its file, its calls from several threads.      *)
(* SpecHistRace  _add_history called from several threads.                 *)
(* SpecDisc  discovery among the devices of one broadcast domain.          *)
(* SpecDiscIn  discovery with datagrams of any shape arriving from the     *)
(*           network.                                                      *)
(* SpecConf  the settings fields of v3.0 and their Apply buttons.          *)
(* SpecWait  the receive sessions with peers that fall silent.             *)
(* SpecRecvPair  two receive sessions open at once.                        *)
(***************************************************************************)
EXTENDS Integers, Sequences, FiniteSets, TLC

(***************************************************************************)
(* Program constants and model bounds                                      *)
(***************************************************************************)
MAX_CONCURRENT_TRANSFERS == 2

DUP_CAP == 1000

MaxJobs == 3

MaxFiles == 2

MaxChunks == 1

MaxWork == 4

MaxQueueJobs == 4

Targets == {"p1"}

VARIABLES
    transfer_queue,      \* self.transfer_queue: jobs waiting, oldest first
    current_transfers,   \* self.current_transfers: started threads, not yet pruned
    transfer_paused,     \* self.transfer_paused
    transfer_cancelled,  \* self.transfer_cancelled
    after_checks,        \* pending root.after(100, self._check_transfers) callbacks
    submitted,           \* number of jobs start_transfer has enqueued
    send,                \* per job: the thread running _perform_send
    history,             \* self.history
    file_hashes,         \* duplicate_manager.file_hashes
    selected_paths,      \* self.selected_paths as gathered: the sizes, in chunks
    revision,            \* which revision runs: "v2" (v2.1) or "v3" (v3.0)
    is_listening,        \* self.is_listening
    disk,                \* the files below the download directory: path -> bytes
    recv,                \* per accepted connection: the thread running
                         \* _handle_incoming_transfer
    link,                \* a manifest on its way from _perform_send to
                         \* _handle_incoming_transfer
    dup_result,          \* what the last DuplicateManager call returned
    duplicates_file,     \* DUPLICATES_FILE and the file system that holds it
    dup_lock,            \* duplicate_manager.lock (v3.0): the thread holding it, or 0
    dup_thread,          \* per thread inside add_file_hash: where it is, its locals
    hist_thread,         \* per thread inside _add_history: where it is, its locals
    device,              \* per device on the network: the application running on it
    datagrams,           \* the UDP datagrams sent and not yet arrived
    sent,                \* the number of sendto calls made so far
    settings             \* v3.0: the globals CHUNK_SIZE and MAX_CONCURRENT_TRANSFERS,
                         \* the size of transfer_executor, the two entry fields of
                         \* the settings tab and the message box shown last

sendVars == <<transfer_queue, current_transfers, after_checks, submitted, send>>
flagVars == <<transfer_paused, transfer_cancelled>>
discVars == <<device, datagrams, sent>>
auxVars == <<dup_lock, dup_thread, hist_thread, discVars, settings>>
sideVars == <<link, dup_result, auxVars>>
recvVars == <<revision, is_listening, disk, recv, sideVars>>
vars == <<transfer_queue, current_transfers, transfer_paused, transfer_cancelled,
          after_checks, submitted, send, history, file_hashes, selected_paths,
          revision, is_listening, disk, recv, link, dup_result, duplicates_file,
          auxVars>>

(***************************************************************************)
(* Paths and digests.  A path is the sequence of its components, "/" first  *)
(* when it is absolute; a digest is its hex text and the case it is in.     *)
(***************************************************************************)
\* os.path.basename: what follows the last separator
basename(path) == IF path = <<>> THEN "" ELSE path[Len(path)]

\* pathlib's "/": an absolute right-hand side replaces the left-hand side
JoinPath(base, rel) == IF rel # <<>> /\ rel[1] = "/" THEN rel ELSE base \o rel

\* the file a path names when it is opened: ".." steps up, never above the root
RECURSIVE Resolve(_)
Resolve(path) ==
    IF path = <<>> THEN <<>>
    ELSE LET up == Resolve(SubSeq(path, 1, Len(path) - 1))
             c == path[Len(path)]
         IN  IF c = ".." THEN (IF Len(up) > 1 THEN SubSeq(up, 1, Len(up) - 1) ELSE up)
             ELSE IF c = "" \/ c = "." THEN up
             ELSE Append(up, c)

\* no path: None
NoPath == <<>>

\* hashlib.sha256(...).hexdigest(): lower-case hex of the bytes
Digest(bytes) == [hex |-> ToString(bytes), upper |-> FALSE]

\* str.lower() of a hex digest
lower(d) == [d EXCEPT !.upper = FALSE]

\* the text of a digest as it stands in an f-string
HexStr(d) == IF d.upper THEN "^" \o d.hex ELSE d.hex

\* file_info.get('sha256') of an entry without the key, or with an empty one
NoHash == [hex |-> "", upper |-> FALSE]

(***************************************************************************)
(* DuplicateManager                                                        *)
(***************************************************************************)
\* f"{file_hash}_{os.path.basename(file_path)}"
DupKey(file_path, file_hash) == HexStr(file_hash) \o "_" \o basename(file_path)

\* no record: None
NoEntry == [path |-> NoPath, hash |-> NoHash, peer |-> "", timestamp |-> 0]

\* no call made yet
NoResult == [op |-> "none", path |-> NoPath, hash |-> NoHash, peer |-> "",
             found |-> FALSE, entry |-> NoEntry, list |-> <<>>, raised |-> FALSE]

LastN_KeepOldest(s, n) == IF Len(s) > n THEN SubSeq(s, 1, n) ELSE s

\* lst[-n:]
LastN(s, n) == IF Len(s) > n THEN SubSeq(s, Len(s) - n + 1, Len(s)) ELSE s

\* self.file_hashes.get(key, [])
Entries(store, key) == IF key \in DOMAIN store THEN store[key] ELSE <<>>

\* datetime.now().isoformat(): later than the newest record of the key
Now(old) == IF old = <<>> THEN 1 ELSE old[Len(old)].timestamp + 1

\* add_file_hash: append under hash_basename, keep the newest 1000
add_file_hash(store, file_path, file_hash, peer_ip) ==
    LET key == DupKey(file_path, file_hash)
        old == Entries(store, key)
        entry == [path |-> file_path, hash |-> file_hash, peer |-> peer_ip,
                  timestamp |-> Now(old)]
        new == LastN(Append(old, entry), DUP_CAP)
    IN  (key :> new) @@ store

is_duplicate_AnyPeer(store, file_path, file_hash, peer_ip) ==
    LET list == Entries(store, DupKey(file_path, file_hash))
        hits == {i \in 1..Len(list) : list[i].hash = file_hash}
    IN  IF hits = {} THEN [found |-> FALSE, entry |-> NoEntry]
        ELSE [found |-> TRUE,
              entry |-> list[CHOOSE i \in hits : \A k \in hits : i <= k]]

\* is_duplicate: the first record under the key with the same hash and peer,
\* or (False, None)
is_duplicate(store, file_path, file_hash, peer_ip) ==
    LET list == Entries(store, DupKey(file_path, file_hash))
        hits == {i \in 1..Len(list) :
                    list[i].hash = file_hash /\ list[i].peer = peer_ip}
    IN  IF hits = {} THEN [found |-> FALSE, entry |-> NoEntry]
        ELSE [found |-> TRUE,
              entry |-> list[CHOOSE i \in hits : \A k \in hits : i <= k]]

\* get_duplicate_info: the records under the key
get_duplicate_info(store, file_path, file_hash) ==
    Entries(store, DupKey(file_path, file_hash))

\* clear_duplicates: self.file_hashes.clear()
clear_duplicates_KeepsOne ==
    "h_a" :> <<[path |-> <<"/", "x", "a">>, hash |-> [hex |-> "h", upper |-> FALSE],
                peer |-> "p1", timestamp |-> 1]>>

clear_duplicates == << >>

\* what self.file_hashes.get(key, []) leaves in the dictionary: get returns the
\* default without storing it, where self.file_hashes[key] on the defaultdict
\* would have created the key
AfterGet_Subscript(store, key) == (key :> Entries(store, key)) @@ store

AfterGet(store, key) == store

\* DUPLICATES_FILE and the file system under Path.home(): on "ok" a write goes
\* through; on "readonly" open(DUPLICATES_FILE, "w") raises and the file stays
\* as it was; on "full" open has emptied the file when json.dump raises
FileSystems == {"ok", "readonly", "full"}

NoFile == [fs |-> "ok", exists |-> FALSE, whole |-> TRUE, data |-> << >>]

Written(store) == [fs |-> "ok", exists |-> TRUE, whole |-> TRUE, data |-> store]

\* _load_duplicates: the dictionary in the file; the empty one when there is no
\* file or json.load raises on it
load_duplicates(file) ==
    IF file.exists /\ file.whole THEN file.data ELSE << >>

\* _save_duplicates: json.dump(dict(self.file_hashes), f) inside try/except
\* Exception: pass.  The file afterwards and whether the call raised.
save_duplicates_Stale(store, file) == [file |-> file, raised |-> FALSE]

save_duplicates(store, file) ==
    [file |-> CASE file.fs = "ok" ->
                       [file EXCEPT !.exists = TRUE, !.whole = TRUE, !.data = store]
                [] file.fs = "readonly" -> file
                [] file.fs = "full" ->
                       [file EXCEPT !.exists = TRUE, !.whole = FALSE, !.data = << >>],
     raised |-> FALSE]

\* the threads that may be inside add_file_hash at once: v2.1 runs up to
\* MAX_CONCURRENT_TRANSFERS _perform_send workers and one thread per accepted
\* connection, v3.0 one thread per accepted connection
DupThreads == 1..2

\* a thread outside add_file_hash; tmp is the slice it has taken and not yet
\* stored
NoCall == [pc |-> "idle", tmp |-> <<>>]

\* the devices of one broadcast domain, each named by its address
Devices == {"10.0.0.1", "10.0.0.2"}

\* the application as started: self.device_name, self.discovered_devices,
\* self.is_discovering; left and rounds are the sendto calls the broadcasting
\* thread has yet to make and the scans started so far, message is the name in
\* the datagram it sends; routed says whether the device has a route to
\* 8.8.8.8, which get_local_ip asks for
NoDevice(d, routed) ==
    [device_name |-> "PC-" \o d, discovered_devices |-> << >>,
     is_discovering |-> FALSE, left |-> 0, rounds |-> 0, message |-> "",
     routed |-> routed]

\* v3.0 as started: CHUNK_SIZE = 512 * 1024, MAX_CONCURRENT_TRANSFERS = 4, the
\* pool made with max_workers = MAX_CONCURRENT_TRANSFERS, the fields showing
\* CHUNK_SIZE // 1024 and MAX_CONCURRENT_TRANSFERS, each text character by
\* character
DefaultSettings ==
    [CHUNK_SIZE |-> 512 * 1024, MAX_CONCURRENT_TRANSFERS |-> 4, max_workers |-> 4,
     chunk_size_var |-> <<"5", "1", "2">>, concurrent_var |-> <<"4">>,
     dialog |-> "none"]

AuxIdle ==
    /\ settings = DefaultSettings
    /\ dup_lock = 0
    /\ dup_thread = [t \in DupThreads |-> NoCall]
    /\ hist_thread = [t \in DupThreads |-> NoCall]
    /\ device = [d \in Devices |-> NoDevice(d, TRUE)]
    /\ datagrams = {}
    /\ sent = 0

(***************************************************************************)
(* The manifest on the wire: _perform_send encodes, _handle_incoming_transfer *)
(* decodes.  A list of files is its first entries written out (head) and the *)
(* number of further entries (bulk), which are the empty files of one folder *)
(* taken into the selection by select_folder.                                   *)
(***************************************************************************)
MaxBulk == 140000

\* if metadata_length > 10 * 1024 * 1024
METADATA_CEILING == 10 * 1024 * 1024

\* dict.get(key, default)
Get(obj, key, default) == IF key \in DOMAIN obj THEN obj[key] ELSE default

\* the i-th further entry
BulkEntry(i) ==
    [rel |-> <<"holiday_photo_album_2024_picture_" \o ToString(i)>>, size |-> 0,
     sha256 |-> Digest(<<>>)]

FLen(files) == Len(files.head) + files.bulk

At(files, i) == IF i <= Len(files.head) THEN files.head[i]
                ELSE BulkEntry(i - Len(files.head))

NoFiles == [head |-> <<>>, bulk |-> 0]

\* a path as the string it is
RECURSIVE PathText(_)
PathText(p) ==
    IF p = <<>> THEN ""
    ELSE IF Len(p) = 1 THEN p[1]
    ELSE IF p[1] = "/" THEN "/" \o PathText(Tail(p))
    ELSE p[1] \o "/" \o PathText(Tail(p))

RECURSIVE JoinText(_, _)
JoinText(texts, sep) ==
    IF texts = <<>> THEN ""
    ELSE IF Len(texts) = 1 THEN texts[1]
    ELSE texts[1] \o sep \o JoinText(Tail(texts), sep)

\* json.dumps of one entry of the files list
EntryText(e) ==
    "{" \o JoinText(
        (IF "rel" \in DOMAIN e THEN <<"\"rel\": \"" \o PathText(e.rel) \o "\"">> ELSE <<>>)
        \o (IF "size" \in DOMAIN e THEN <<"\"size\": " \o ToString(e.size)>> ELSE <<>>)
        \o (IF "sha256" \in DOMAIN e
            THEN <<"\"sha256\": \"" \o HexStr(e.sha256) \o "\"">> ELSE <<>>),
        ", ") \o "}"

\* the length of the texts of entries lo..hi, each with its ", "
RECURSIVE EntriesLen(_, _, _)
EntriesLen(files, lo, hi) ==
    IF lo > hi THEN 0
    ELSE IF lo = hi THEN Len(EntryText(At(files, lo))) + 2
    ELSE LET mid == (lo + hi) \div 2
         IN  EntriesLen(files, lo, mid) + EntriesLen(files, mid + 1, hi)

\* len(json.dumps(metadata).encode('utf-8'))
JsonLen(doc) ==
    Len("{\"file_count\": " \o ToString(doc.file_count) \o ", \"files\": [")
    + (IF FLen(doc.files) = 0 THEN 0
       ELSE EntriesLen(doc.files, 1, FLen(doc.files)) - 2)
    + Len("]}")

\* struct.pack('!I', n): four bytes, the most significant first
pack_I(n) == <<(n \div 16777216) % 256, (n \div 65536) % 256, (n \div 256) % 256, n % 256>>

\* struct.unpack('!I', header)[0]
unpack_I(b) == b[1] * 16777216 + b[2] * 65536 + b[3] * 256 + b[4]

\* the metadata dict _perform_send builds: file_count and, per file, rel, size
\* and sha256 (the local path stays behind)
Metadata(files) ==
    [file_count |-> FLen(files),
     files |-> [head |-> [i \in 1..Len(files.head) |->
                             [rel |-> files.head[i].rel, size |-> files.head[i].size,
                              sha256 |-> files.head[i].sha256]],
                bulk |-> files.bulk]]

NoDoc == [file_count |-> 0, files |-> NoFiles]

\* nothing on the connection
NoWire == [prefix |-> <<>>, doc |-> NoDoc, valid |-> FALSE, len |-> 0, avail |-> 0]

\* what is put on the connection for a metadata text of len bytes (the JSON
\* text of doc and white space after it) of which avail are sent
Wire(doc, len, avail) ==
    [prefix |-> pack_I(len), doc |-> doc, valid |-> TRUE, len |-> len, avail |-> avail]

\* json.dumps(metadata).encode, sock.send(struct.pack('!I', len)), sock.sendall
EncodeManifest(files) ==
    LET metadata_bytes_len == JsonLen(Metadata(files))
    IN  Wire(Metadata(files), metadata_bytes_len, metadata_bytes_len)

DecodeEntry_DigestKey(e) ==
    [rel |-> IF Get(e, "rel", NoPath) # NoPath THEN e.rel
             ELSE IF Get(e, "relative_path", NoPath) # NoPath THEN e.relative_path
             ELSE Get(e, "name", IF revision = "v2" THEN NoPath ELSE <<"unknown">>),
     size |-> Get(e, "size", 0),
     sha256 |-> Get(e, "sha", NoHash)]

\* the receiver's reading of one entry: the name under rel, relative_path or
\* name, size 0 and no digest when the keys are missing
DecodeEntry(e) ==
    [rel |-> IF Get(e, "rel", NoPath) # NoPath THEN e.rel
             ELSE IF Get(e, "relative_path", NoPath) # NoPath THEN e.relative_path
             ELSE Get(e, "name", IF revision = "v2" THEN NoPath ELSE <<"unknown">>),
     size |-> Get(e, "size", 0),
     sha256 |-> Get(e, "sha256", NoHash)]

Raised(eof, length, read) ==
    [ok |-> FALSE, eof |-> eof, metadata_length |-> length, read |-> read,
     total_files |-> 0, files |-> NoFiles]

\* the head of _handle_incoming_transfer: the four bytes of the length, the
\* ceiling (v3.0 only), the metadata, json.loads, the files list and the count
DecodeHeader_NoCeiling(w) ==
    IF Len(w.prefix) < 4 THEN Raised(TRUE, 0, 0)
    ELSE LET metadata_length == unpack_I(w.prefix)
         IN  IF w.avail < metadata_length
                THEN Raised(TRUE, metadata_length, w.avail)
             ELSE IF ~w.valid THEN Raised(FALSE, metadata_length, metadata_length)
             ELSE [ok |-> TRUE, eof |-> FALSE, metadata_length |-> metadata_length,
                   read |-> metadata_length,
                   total_files |-> Get(w.doc, "file_count", FLen(Get(w.doc, "files", NoFiles))),
                   files |-> [head |-> [i \in 1..Len(Get(w.doc, "files", NoFiles).head) |->
                                           DecodeEntry(w.doc.files.head[i])],
                              bulk |-> Get(w.doc, "files", NoFiles).bulk]]

DecodeHeader(w) ==
    IF /\ Len(w.prefix) = 4
       /\ revision = "v3"
       /\ unpack_I(w.prefix) > METADATA_CEILING
    THEN Raised(FALSE, unpack_I(w.prefix), 0)
    ELSE DecodeHeader_NoCeiling(w)

NoLink == [pc |-> "idle", files |-> NoFiles, wire |-> NoWire,
           out |-> Raised(FALSE, 0, 0)]

(***************************************************************************)
(* Send side, v2.1                                                         *)
(***************************************************************************)
\* the i-th selected file
SrcPath(f) == <<"/", "src", "f" \o ToString(f)>>

\* _sha256_of_file: the digest of what the file holds when it is gathered
Sha(f) == Digest(<<f>>)

\* _gather_files_for_send: one entry per selected file, rel is path_obj.name
gather_files_for_send == [i \in 1..Len(selected_paths) |->
                             [path |-> SrcPath(i), rel |-> <<basename(SrcPath(i))>>,
                              size |-> selected_paths[i], sha256 |-> Sha(i)]]

Queued == [pc |-> "Queued", target |-> "none", files |-> <<>>, idx |-> 0, sent |-> 0,
           flen |-> 0, wrote |-> <<>>, meta |-> FALSE, conn |-> "none"]

NotSubmitted == [Queued EXCEPT !.pc = "None"]

\* a thread that has returned: its locals are gone
Dead == [Queued EXCEPT !.pc = "Dead"]

CloseSocket_Leak(conn) == conn

\* finally: sock.close(); "unconnected" is a socket closed before it connected
CloseSocket(conn) == IF conn = "open" THEN "closed" ELSE "unconnected"

IsAlive(j) == send[j].pc \notin {"None", "Queued", "Dead"}

HISTORY_CAP_V2 == 1000

HISTORY_CAP_V3 == 2000

HistoryCap == IF revision = "v2" THEN HISTORY_CAP_V2 ELSE HISTORY_CAP_V3

\* _add_history: append the record, keep the newest 1000 (v3.0: 2000)
add_history(h, direction, who, status, verified) ==
    LastN(Append(h, [direction |-> direction, who |-> who, status |-> status,
                     verified |-> verified]), HistoryCap)

QueueFull_OffByOne(cur) == Len(cur) > MAX_CONCURRENT_TRANSFERS

\* _process_queue, the capacity test
QueueFull(cur) == Len(cur) >= MAX_CONCURRENT_TRANSFERS

QueuePop_Last(q) == [job |-> q[Len(q)], rest |-> SubSeq(q, 1, Len(q) - 1)]

\* _process_queue, transfer_queue.pop(0): the job taken and the queue left
QueuePop(q) == [job |-> Head(q), rest |-> Tail(q)]

process_queue_NoTimer(q, cur, snd, n) ==
    IF QueueFull(cur) \/ q = <<>>
    THEN [q |-> q, cur |-> cur, snd |-> snd, n |-> n]
    ELSE [q |-> Tail(q), cur |-> Append(cur, Head(q)),
          snd |-> [snd EXCEPT ![Head(q)].pc = "Connecting"], n |-> n]

\* _process_queue: start one thread for the oldest queued job if there is room,
\* and arm one _check_transfers callback for it
process_queue(q, cur, snd, n) ==
    IF QueueFull(cur) \/ q = <<>>
    THEN [q |-> q, cur |-> cur, snd |-> snd, n |-> n]
    ELSE LET p == QueuePop(q)
         IN  [q |-> p.rest,
              cur |-> Append(cur, p.job),
              snd |-> [snd EXCEPT ![p.job].pc = "Connecting"],
              n |-> n + 1]

check_send_duplicates_None(files, target_ip) == {}

\* _check_send_duplicates: the files already recorded for this peer
check_send_duplicates(files, target_ip) ==
    {i \in 1..Len(files) :
        is_duplicate(file_hashes, files[i].path, files[i].sha256, target_ip).found}

\* start_transfer: the button handler, on the main thread
start_transfer(target_ip, send_anyway) ==
    /\ submitted + 1 \in DOMAIN send
    /\ (submitted + 1) * Len(selected_paths) <= MaxWork
    /\ LET files == gather_files_for_send
           j == submitted + 1
       IN  IF check_send_duplicates(files, target_ip) # {} /\ ~send_anyway
           THEN UNCHANGED sendVars
           ELSE LET snd == [send EXCEPT ![j] = [Queued EXCEPT
                                !.target = target_ip, !.files = files,
                                !.wrote = [i \in 1..Len(files) |-> 0]]]
                    r == process_queue(Append(transfer_queue, j),
                                       current_transfers, snd, after_checks)
                IN  /\ transfer_queue' = r.q
                    /\ current_transfers' = r.cur
                    /\ send' = r.snd
                    /\ after_checks' = r.n
                    /\ submitted' = j
    /\ UNCHANGED <<flagVars, history, file_hashes, duplicates_file, selected_paths, recvVars>>

\* _check_transfers: the root.after callback, on the main thread
check_transfers ==
    /\ after_checks > 0
    /\ LET cur == SelectSeq(current_transfers, IsAlive)
           r == process_queue(transfer_queue, cur, send, after_checks - 1)
       IN  IF transfer_queue # <<>> /\ Len(cur) < MAX_CONCURRENT_TRANSFERS
           THEN /\ transfer_queue' = r.q
                /\ current_transfers' = r.cur
                /\ send' = r.snd
                /\ after_checks' = r.n
           ELSE /\ current_transfers' = cur
                /\ after_checks' = IF transfer_queue # <<>> \/ cur # <<>>
                                   THEN after_checks
                                   ELSE after_checks - 1
                /\ UNCHANGED <<transfer_queue, send>>
    /\ UNCHANGED <<submitted, flagVars, history, file_hashes, duplicates_file, selected_paths, recvVars>>

pause_transfer ==
    /\ transfer_paused' = TRUE
    /\ UNCHANGED <<transfer_cancelled, sendVars, history, file_hashes, duplicates_file,
                   selected_paths, recvVars>>

resume_transfer ==
    /\ transfer_paused' = FALSE
    /\ UNCHANGED <<transfer_cancelled, sendVars, history, file_hashes, duplicates_file,
                   selected_paths, recvVars>>

cancel_transfer ==
    /\ transfer_cancelled' = TRUE
    /\ UNCHANGED <<transfer_paused, sendVars, history, file_hashes, duplicates_file,
                   selected_paths, recvVars>>

(***************************************************************************)
(* _perform_send: one worker thread per dispatched job.  Each action is one *)
(* stretch of the thread between two reads or writes of shared state.      *)
(***************************************************************************)
SendFrame == <<transfer_queue, current_transfers, after_checks, submitted,
               flagVars, selected_paths, recvVars>>

SendFails_GoesOn(j) ==
    /\ history' = add_history(history, "Send", j, "Error", "none")
    /\ send' = [send EXCEPT ![j].pc = "AddDup"]
    /\ UNCHANGED <<file_hashes, duplicates_file>>

\* the except branch followed by finally: one "Error" record, then the close
SendFails(j) ==
    /\ history' = add_history(history, "Send", j, "Error", "none")
    /\ send' = [send EXCEPT ![j].pc = "Finally"]
    /\ UNCHANGED <<file_hashes, duplicates_file>>

\* the head of "for file_info in files": out of files or cancelled leaves the loop
ForNext(j, k) ==
    IF k > Len(send[j].files) \/ transfer_cancelled THEN "FinalCheck" ELSE "ChunkCheck"

\* open(file_path, "rb"): the chunks the file holds now, which is its size at
\* gathering time only if nobody has written to it since
OpenLengths(j, k) == IF ForNext(j, k) = "ChunkCheck" THEN 0..MaxChunks ELSE {0}

\* sock.connect((target_ip, self.transfer_port))
SendConnect(j) ==
    /\ send[j].pc = "Connecting"
    /\ \/ /\ send' = [send EXCEPT ![j].pc = "SendingMetadata", ![j].conn = "open"]
          /\ UNCHANGED <<history, file_hashes, duplicates_file>>
       \/ SendFails(j)
    /\ UNCHANGED SendFrame

SendMetadata_Skipped(j) ==
    /\ send[j].pc = "SendingMetadata"
    /\ \/ /\ \E n \in OpenLengths(j, 1) :
                send' = [send EXCEPT ![j].pc = ForNext(j, 1),
                                     ![j].idx = 1, ![j].sent = 0, ![j].flen = n]
          /\ UNCHANGED <<history, file_hashes, duplicates_file>>
       \/ SendFails(j)
    /\ UNCHANGED SendFrame

\* the length prefix and the manifest, then the first pass of the for loop:
\* the cancel test and the open of the first file
SendMetadata(j) ==
    /\ send[j].pc = "SendingMetadata"
    /\ \/ /\ \E n \in OpenLengths(j, 1) :
                send' = [send EXCEPT ![j].pc = ForNext(j, 1), ![j].meta = TRUE,
                                     ![j].idx = 1, ![j].sent = 0, ![j].flen = n]
          /\ UNCHANGED <<history, file_hashes, duplicates_file>>
       \/ SendFails(j)
    /\ UNCHANGED SendFrame

SendChunkCheck_IgnoreCancel(j) ==
    /\ send[j].pc = "ChunkCheck"
    /\ send' = [send EXCEPT ![j].pc = "PauseWait"]
    /\ UNCHANGED <<history, file_hashes, duplicates_file, SendFrame>>

\* "if self.transfer_cancelled: break" at the head of the chunk loop
SendChunkCheck(j) ==
    /\ send[j].pc = "ChunkCheck"
    /\ send' = [send EXCEPT ![j].pc = IF transfer_cancelled THEN "AddDup"
                                      ELSE "PauseWait"]
    /\ UNCHANGED <<history, file_hashes, duplicates_file, SendFrame>>

\* "while self.transfer_paused: time.sleep(0.1)": left once the flag reads False
SendPauseWait(j) ==
    /\ send[j].pc = "PauseWait"
    /\ ~transfer_paused
    /\ send' = [send EXCEPT ![j].pc = "SendChunk"]
    /\ UNCHANGED <<history, file_hashes, duplicates_file, SendFrame>>

\* file_handle.read and sock.sendall: an empty read leaves the chunk loop
SendChunk(j) ==
    /\ send[j].pc = "SendChunk"
    /\ LET i == send[j].idx
       IN  IF send[j].sent = send[j].flen
           THEN /\ send' = [send EXCEPT ![j].pc = "AddDup"]
                /\ UNCHANGED <<history, file_hashes, duplicates_file>>
           ELSE \/ /\ send' = [send EXCEPT ![j].pc = "ChunkCheck",
                                           ![j].sent = @ + 1,
                                           ![j].wrote[i] = @ + 1]
                   /\ UNCHANGED <<history, file_hashes, duplicates_file>>
                \/ SendFails(j)
    /\ UNCHANGED SendFrame

\* duplicate_manager.add_file_hash after the chunk loop, then the next pass of
\* the for loop: the cancel test and the open of the next file
SendAddDup(j) ==
    /\ send[j].pc = "AddDup"
    /\ LET i == send[j].idx
           f == send[j].files[i]
       IN  /\ file_hashes' = add_file_hash(file_hashes, f.path, f.sha256, send[j].target)
           /\ duplicates_file' = save_duplicates(file_hashes', duplicates_file).file
           /\ \/ /\ \E n \in OpenLengths(j, i + 1) :
                       send' = [send EXCEPT ![j].pc = ForNext(j, i + 1),
                                            ![j].idx = i + 1, ![j].sent = 0,
                                            ![j].flen = n]
                 /\ UNCHANGED history
              \/ /\ ForNext(j, i + 1) = "ChunkCheck"
                 /\ history' = add_history(history, "Send", j, "Error", "none")
                 /\ send' = [send EXCEPT ![j].pc = "Finally", ![j].idx = i + 1,
                                          ![j].sent = 0]
    /\ UNCHANGED SendFrame

SendFinalCheck_IgnoreCancel(j) ==
    /\ send[j].pc = "FinalCheck"
    /\ send' = [send EXCEPT ![j].pc = "RecordOK"]
    /\ UNCHANGED <<history, file_hashes, duplicates_file, SendFrame>>

\* "if not self.transfer_cancelled": the success dialog, or the Cancelled record
SendFinalCheck(j) ==
    /\ send[j].pc = "FinalCheck"
    /\ IF ~transfer_cancelled
       THEN /\ send' = [send EXCEPT ![j].pc = "RecordOK"]
            /\ UNCHANGED history
       ELSE /\ send' = [send EXCEPT ![j].pc = "Finally"]
            /\ history' = add_history(history, "Send", j, "Cancelled", "none")
    /\ UNCHANGED <<file_hashes, duplicates_file, SendFrame>>

\* the success dialog is dismissed: the "OK" record
SendRecordOK(j) ==
    /\ send[j].pc = "RecordOK"
    /\ send' = [send EXCEPT ![j].pc = "Finally"]
    /\ history' = add_history(history, "Send", j, "OK",
                            <<Len(send[j].files), Len(send[j].files)>>)
    /\ UNCHANGED <<file_hashes, duplicates_file, SendFrame>>

\* finally: sock.close(), and the thread ends
SendFinally(j) ==
    /\ send[j].pc = "Finally"
    /\ send' = [send EXCEPT ![j] = [Dead EXCEPT !.conn = CloseSocket(send[j].conn)]]
    /\ UNCHANGED <<history, file_hashes, duplicates_file, SendFrame>>

(***************************************************************************)
(* Receive side: _listen_thread and _handle_incoming_transfer, v2.1 / v3.0  *)
(***************************************************************************)
MaxRecvFiles == 2

MaxSize == 2

\* self.download_path_var.get()
DOWNLOAD == <<"/", "dl">>

\* names a well-behaved sender declares
RelNames == {<<"a">>, <<"b">>}

\* names with a directory part, a step up, an absolute path, a directory
RelDirs == {<<"sub", "a">>, <<"..", "a">>, <<"/", "abs", "a">>, <<"..">>}

Min(a, b) == IF a < b THEN a ELSE b

\* the directories that are there: opening one for writing raises
IsDirectory(target) == Len(target) <= 1 \/ target = DOWNLOAD

\* save_path.exists()
Exists(target) == target \in DOMAIN disk \/ IsDirectory(target)

\* the bytes a faithful sender streams for entry i of session s: size copies of
\* a byte that names the entry
SentBytes(s, i, size) == [k \in 1..size |-> <<s, i>>]

RECURSIVE SumSizes(_, _)
SumSizes(files, n) == IF n = 0 THEN 0 ELSE SumSizes(files, n - 1) + files[n].size

\* the byte at position pos of the body: entry boundaries follow the sizes
StreamByte(s, files, pos) ==
    <<s, CHOOSE i \in 1..Len(files) :
            SumSizes(files, i - 1) < pos /\ pos <= SumSizes(files, i)>>

\* what a peer can put on a connection: a header that is missing ("none"), a
\* length above 10 MiB ("big"), metadata cut short ("short") or not JSON
\* ("garbage"), or a well-formed manifest followed by the first cut body bytes;
\* "miscount" is a manifest whose file_count is a number of the peer's choice
ManifestEntries == [rel : RelNames, size : 0..MaxSize,
                    sha : {"ok", "bad"}]

\* entries whose digest is declared in upper case, or not declared at all
DigestEntries == [rel : RelNames, size : {1}, sha : {"upper", "absent"}]

\* manifests of plain names, and one-entry manifests whose name has a
\* directory part, steps up, is absolute, or names a directory
PeerManifests ==
    UNION {[1..n -> ManifestEntries] : n \in 1..MaxRecvFiles}
    \cup UNION {[1..n -> DigestEntries] : n \in 1..MaxRecvFiles}
    \cup {<<[rel |-> d, size |-> 1, sha |-> "ok"]>> : d \in RelDirs}

PaddedManifests == {<<[rel |-> <<"a">>, size |-> 1, sha |-> "ok"]>>}

PeerInputs ==
    {[hdr |-> h, files |-> <<>>, cut |-> 0] : h \in {"none", "short", "garbage"}}
    \cup {[hdr |-> "ok", files |-> m, cut |-> c] :
             m \in PeerManifests, c \in 0..MaxRecvFiles * MaxSize}
    \cup {[hdr |-> h, files |-> m, cut |-> c] :
             h \in {"atceiling", "over"}, m \in PaddedManifests, c \in 0..1}
    \cup {[hdr |-> "unsent", files |-> m, cut |-> 0] : m \in PaddedManifests}

\* the entries a peer writes into its metadata for session s
DeclaredFiles(s, m) ==
    [i \in 1..Len(m) |->
        [rel |-> m[i].rel, size |-> m[i].size,
         sha256 |-> CASE m[i].sha = "ok" -> Digest(SentBytes(s, i, m[i].size))
                      [] m[i].sha = "upper" ->
                            [Digest(SentBytes(s, i, m[i].size)) EXCEPT !.upper = TRUE]
                      [] m[i].sha = "absent" -> NoHash
                      [] OTHER -> Digest(<<"corrupt">>)]]

\* the metadata of a peer: an entry with no digest has no sha256 key
PeerDoc(s, m) ==
    [file_count |-> Len(m),
     files |-> [head |-> [i \in 1..Len(m) |->
                             IF m[i].sha = "absent"
                             THEN [rel |-> m[i].rel, size |-> m[i].size]
                             ELSE DeclaredFiles(s, m)[i]],
                bulk |-> 0]]

\* what the peer puts on the connection ahead of the bodies: nothing, a text
\* that is not JSON, its metadata less the last byte, its metadata, or its
\* metadata with white space up to the ceiling or one byte above it, sent or
\* only announced
PeerWire(s, input) ==
    LET doc == PeerDoc(s, input.files)
    IN  CASE input.hdr = "none" -> NoWire
          [] input.hdr = "garbage" -> [Wire(NoDoc, 1, 1) EXCEPT !.valid = FALSE]
          [] input.hdr = "short" -> Wire(doc, JsonLen(doc), JsonLen(doc) - 1)
          [] input.hdr = "ok" -> Wire(doc, JsonLen(doc), JsonLen(doc))
          [] input.hdr = "atceiling" -> Wire(doc, METADATA_CEILING, METADATA_CEILING)
          [] input.hdr = "over" -> Wire(doc, METADATA_CEILING + 1, METADATA_CEILING + 1)
          [] input.hdr = "unsent" -> Wire(doc, METADATA_CEILING + 1, 0)
          [] input.hdr = "miscount" ->
                LET other == [doc EXCEPT !.file_count = input.count]
                IN  Wire(other, JsonLen(other), JsonLen(other))

NoSession == [pc |-> "None", peer |-> "none", wire |-> NoWire, meta_read |-> 0,
              files |-> <<>>,
              cut |-> 0, rpos |-> 0, idx |-> 0, got |-> 0, hashed |-> <<>>,
              save |-> NoPath, verified_count |-> 0, total_files |-> 0,
              overwrite_all |-> "None", asked |-> 0, eof |-> FALSE, log |-> <<>>,
              silent |-> FALSE, waited |-> 0]

Closed == [NoSession EXCEPT !.pc = "Closed"]

StatusOK == IF revision = "v2" THEN "OK" ELSE "Mission Success"

StatusStopped == IF revision = "v2" THEN "Cancelled" ELSE "Mission Interrupted"

StatusFailed == IF revision = "v2" THEN "Error" ELSE "Mission Failed"

\* Path(download) / relative_path; v3.0 takes os.path.basename first
SavePath(rel) ==
    JoinPath(DOWNLOAD, IF revision = "v2" THEN rel ELSE <<basename(rel)>>)

RecvFrame == <<sendVars, flagVars, selected_paths, revision, sideVars>>

\* start_listening: the button handler
start_listening ==
    /\ ~is_listening
    /\ is_listening' = TRUE
    /\ UNCHANGED <<sendVars, flagVars, selected_paths, revision, disk, recv,
                   history, file_hashes, duplicates_file, sideVars>>

\* server_socket.accept() in _listen_thread: a thread for the connection
RecvAccept(s, input) ==
    /\ is_listening
    /\ recv[s].pc = "None"
    /\ input.cut <= SumSizes(input.files, Len(input.files))
    /\ recv' = [recv EXCEPT ![s] = [NoSession EXCEPT
                   !.pc = "Header", !.peer = "p1", !.wire = PeerWire(s, input),
                   !.cut = input.cut]]
    /\ UNCHANGED <<RecvFrame, is_listening, disk, history, file_hashes, duplicates_file>>

\* the same, from a peer that keeps the connection open after what it sent
RecvAcceptSilent(s, input) ==
    /\ is_listening
    /\ recv[s].pc = "None"
    /\ input.cut <= SumSizes(input.files, Len(input.files))
    /\ recv' = [recv EXCEPT ![s] = [NoSession EXCEPT
                   !.pc = "Header", !.peer = "p1", !.wire = PeerWire(s, input),
                   !.cut = input.cut, !.silent = TRUE]]
    /\ UNCHANGED <<RecvFrame, is_listening, disk, history, file_hashes, duplicates_file>>

\* connection.recv has nothing to return, neither data nor the empty read of
\* a closed connection: in _receive_all, short of the four bytes or of the
\* metadata, and in the body loop, short of the file's size
HeaderWaits(r) == r.silent /\ r.pc = "Header" /\ DecodeHeader(r.wire).eof

BodyWaits(r) ==
    r.silent /\ r.pc = "Body" /\ r.got < r.files[r.idx].size /\ r.rpos >= r.cut

MaxTimeouts == 2

\* the timeout of the connection runs out in a recv that waits.  v2.1 sets
\* none: the socket accept returns is a blocking one.  v3.0 sets 30 seconds:
\* _receive_all passes over socket.timeout and calls recv again, the recv of
\* the body loop raises it into the except branch
RecvTimeout(s) ==
    LET r == recv[s]
    IN  /\ revision = "v3"
        /\ r.waited < MaxTimeouts
        /\ \/ /\ HeaderWaits(r)
              /\ recv' = [recv EXCEPT ![s].waited = r.waited + 1]
              /\ UNCHANGED history
           \/ /\ BodyWaits(r)
              /\ history' = add_history(history, "Receive", s, StatusFailed, "none")
              /\ recv' = [recv EXCEPT ![s].pc = "Finally",
                                      ![s].waited = r.waited + 1]
        /\ UNCHANGED <<RecvFrame, is_listening, disk, file_hashes, duplicates_file>>

\* the except branch: one failure record
RecvFails(s) ==
    /\ history' = add_history(history, "Receive", s, StatusFailed, "none")
    /\ recv' = [recv EXCEPT ![s].pc = "Finally"]

\* the 4-byte length, the 10 MiB ceiling (v3.0 only), the metadata, json.loads;
\* whatever raises (RuntimeError, AttributeError on None, the JSON decode
\* error) ends in the except branch
RecvHeader(s) ==
    LET d == DecodeHeader(recv[s].wire)
    IN  /\ recv[s].pc = "Header"
        /\ ~HeaderWaits(recv[s])
        /\ IF d.ok
           THEN /\ recv' = [recv EXCEPT
                      ![s].pc = IF d.files.head = <<>> THEN "Complete" ELSE "FileTop",
                      ![s].idx = 1,
                      ![s].files = d.files.head,
                      ![s].meta_read = d.read,
                      ![s].total_files = d.total_files]
                /\ UNCHANGED history
           ELSE /\ history' = add_history(history, "Receive", s, StatusFailed, "none")
                /\ recv' = [recv EXCEPT ![s].pc = "Finally",
                                        ![s].meta_read = d.read,
                                        ![s].eof = d.eof]
        /\ UNCHANGED <<RecvFrame, is_listening, disk, file_hashes, duplicates_file>>

\* output_file.write at the handle's offset
WriteAt(content, off, bytes) ==
    LET n == IF Len(content) > off + Len(bytes) THEN Len(content)
             ELSE off + Len(bytes)
    IN  [k \in 1..n |-> IF k > off /\ k <= off + Len(bytes) THEN bytes[k - off]
                        ELSE IF k <= Len(content) THEN content[k] ELSE "zero"]

\* open(save_path, "wb"): the file exists and is empty
OpenWb(d, path) == [p \in DOMAIN d \cup {path} |-> IF p = path THEN <<>> ELSE d[p]]

\* the for statement moves to the next manifest entry, or leaves the loop
NextEntry(r) ==
    [r EXCEPT !.idx = r.idx + 1,
              !.pc = IF r.idx + 1 > Len(r.files) THEN "Complete" ELSE "FileTop",
              !.got = 0, !.hashed = <<>>, !.save = NoPath]

\* what became of manifest entry r.idx: skipped, or received with these bytes
Logged(r, kind) ==
    Append(r.log, [idx |-> r.idx, kind |-> kind, path |-> r.save, bytes |-> r.hashed])

SkipEntry_Counted(r) ==
    [NextEntry(r) EXCEPT !.verified_count = r.verified_count + 1,
                         !.log = Logged(r, "skipped")]

\* the skip branches: continue, nothing read from the connection
SkipEntry(r) == [NextEntry(r) EXCEPT !.log = Logged(r, "skipped")]

HashMatches_CaseSensitive(expected_hash, actual_hash) ==
    expected_hash # NoHash /\ actual_hash = expected_hash

\* expected_hash and actual_hash.lower() == expected_hash.lower()
HashMatches(expected_hash, actual_hash) ==
    expected_hash # NoHash /\ lower(actual_hash) = lower(expected_hash)

VerifyOutcome_StopOnMismatch(r, match) ==
    IF match
    THEN [NextEntry(r) EXCEPT !.verified_count = r.verified_count + 1,
                              !.log = Logged(r, "received")]
    ELSE [NextEntry(r) EXCEPT !.pc = "Complete", !.log = Logged(r, "received")]

\* after the comparison: the counter goes up on a match, and either way the
\* loop moves on to the next entry
VerifyOutcome(r, match) ==
    [NextEntry(r) EXCEPT
        !.verified_count = IF match THEN r.verified_count + 1 ELSE r.verified_count,
        !.log = Logged(r, "received")]

\* the top of the loop body up to open(): the save path, the overwrite
\* question (v2.1 asks and waits; v3.0 posts the question and goes on with
\* overwrite_policy still None), and the open
RecvFileTop(s) ==
    LET r == recv[s]
        save_path == SavePath(r.files[r.idx].rel)
        target == Resolve(save_path)
        asks == Exists(target) /\ r.overwrite_all = "None"
        n == IF asks THEN r.asked + 1 ELSE r.asked
        raises == /\ history' = add_history(history, "Receive", s, StatusFailed, "none")
                  /\ recv' = [recv EXCEPT ![s].pc = "Finally", ![s].asked = n]
                  /\ UNCHANGED <<is_listening, disk>>
        opens(policy) ==
            IF IsDirectory(target) THEN raises
            ELSE /\ recv' = [recv EXCEPT ![s].pc = "Body", ![s].save = save_path,
                                          ![s].got = 0, ![s].hashed = <<>>,
                                          ![s].asked = n,
                                          ![s].overwrite_all = policy]
                 /\ disk' = OpenWb(disk, target)
                 /\ UNCHANGED <<is_listening, history>>
        skips == /\ recv' = [recv EXCEPT ![s] =
                              [SkipEntry([r EXCEPT !.save = save_path]) EXCEPT !.asked = n]]
                 /\ UNCHANGED <<is_listening, disk, history>>
    IN  /\ r.pc = "FileTop"
        /\ \/ /\ revision = "v2"
              /\ asks
              /\ \E response \in {"yes", "no", "cancel"} :
                    CASE response = "cancel" ->
                            /\ is_listening' = FALSE
                            /\ recv' = [recv EXCEPT ![s].pc = "Complete",
                                                    ![s].asked = n]
                            /\ UNCHANGED <<disk, history>>
                      [] response = "no" -> skips
                      [] response = "yes" -> opens("True")
           \/ /\ ~(revision = "v2" /\ asks)
              /\ IF Exists(target)
                    /\ (IF revision = "v2" THEN r.overwrite_all = "False"
                        ELSE r.overwrite_all = "skip")
                 THEN skips
                 ELSE opens(r.overwrite_all)
           \/ \* mkdir or open raises
              raises
        /\ UNCHANGED <<RecvFrame, file_hashes, duplicates_file>>

\* one pass of the body loop that gets data: recv returns between one byte and
\* what is asked for, the chunk is written and hashed
RecvChunk(s) ==
    LET r == recv[s]
        size == r.files[r.idx].size
    IN  /\ r.pc = "Body"
        /\ r.got < size
        /\ r.rpos < r.cut
        /\ \E n \in 1..Min(size - r.got, r.cut - r.rpos) :
              LET chunk == [k \in 1..n |-> StreamByte(s, r.files, r.rpos + k)]
              IN  /\ disk' = [disk EXCEPT ![Resolve(r.save)] = WriteAt(@, r.got, chunk)]
                  /\ recv' = [recv EXCEPT ![s].got = r.got + n,
                                          ![s].rpos = r.rpos + n,
                                          ![s].hashed = r.hashed \o chunk]
        /\ UNCHANGED <<RecvFrame, is_listening, history, file_hashes, duplicates_file>>

\* the body loop ends, by its condition or by the break on an empty read, and
\* the digest is compared with the declared one
RecvVerify(s) ==
    LET r == recv[s]
        size == r.files[r.idx].size
        expected_hash == r.files[r.idx].sha256
        actual_hash == Digest(r.hashed)
        match == HashMatches(expected_hash, actual_hash)
    IN  /\ r.pc = "Body"
        /\ r.got >= size \/ r.rpos >= r.cut
        /\ ~BodyWaits(r)
        /\ recv' = [recv EXCEPT ![s] =
               [VerifyOutcome(r, match) EXCEPT !.eof = r.eof \/ r.got < size]]
        /\ file_hashes' = IF match
                          THEN add_file_hash(file_hashes, r.save, actual_hash, r.peer)
                          ELSE file_hashes
        /\ duplicates_file' = IF match
                              THEN save_duplicates(file_hashes', duplicates_file).file
                              ELSE duplicates_file
        /\ UNCHANGED <<RecvFrame, is_listening, disk, history>>

RecvComplete_NoRecordWhenStopped(s) ==
    /\ recv[s].pc = "Complete"
    /\ history' = IF is_listening
                  THEN add_history(history, "Receive", s, StatusOK,
                                   <<recv[s].verified_count, recv[s].total_files>>)
                  ELSE history
    /\ recv' = [recv EXCEPT ![s].pc = "Finally"]
    /\ UNCHANGED <<RecvFrame, is_listening, disk, file_hashes, duplicates_file>>

\* after the loop: the status is read off is_listening
RecvComplete(s) ==
    /\ recv[s].pc = "Complete"
    /\ history' = IF is_listening
                  THEN add_history(history, "Receive", s, StatusOK,
                                   <<recv[s].verified_count, recv[s].total_files>>)
                  ELSE add_history(history, "Receive", s, StatusStopped, "none")
    /\ recv' = [recv EXCEPT ![s].pc = "Finally"]
    /\ UNCHANGED <<RecvFrame, is_listening, disk, file_hashes, duplicates_file>>

\* finally: connection.close()
RecvFinally(s) ==
    /\ recv[s].pc = "Finally"
    /\ recv' = [recv EXCEPT ![s] = Closed]
    /\ UNCHANGED <<RecvFrame, is_listening, disk, history, file_hashes, duplicates_file>>

(***************************************************************************)
(* Calls of the DuplicateManager, one after another                        *)
(***************************************************************************)
MaxDupAdds == 2

DupPaths == {<<"/", "x", "a">>, <<"/", "y", "a">>, <<"/", "x", "a_a">>}

DupHashes == {[hex |-> "h", upper |-> FALSE], [hex |-> "h_a", upper |-> FALSE]}

DupPeers == {"p1", "p2"}

\* the store after n transfers of one file with one peer, n at most the cap:
\* what n calls add_file_hash(path, hash, peer) leave in an empty store
Filled(n) ==
    DupKey(<<"/", "x", "a">>, [hex |-> "h", upper |-> FALSE]) :>
        [i \in 1..n |-> [path |-> <<"/", "x", "a">>,
                         hash |-> [hex |-> "h", upper |-> FALSE],
                         peer |-> "p1", timestamp |-> i]]

\* the number of add_file_hash calls since the store was last empty
RECURSIVE Additions(_, _)
Additions(store, keys) ==
    IF keys = {} THEN 0
    ELSE LET k == CHOOSE x \in keys : TRUE
         IN  store[k][Len(store[k])].timestamp + Additions(store, keys \ {k})

DupFrame == <<sendVars, flagVars, selected_paths, revision, is_listening, disk,
              recv, history, link, auxVars>>

\* duplicate_manager.add_file_hash(file_path, file_hash, peer_ip)
AddFileHash(file_path, file_hash, peer_ip) ==
    /\ \/ Additions(file_hashes, DOMAIN file_hashes) < MaxDupAdds
       \/ /\ Additions(file_hashes, DOMAIN file_hashes) >= DUP_CAP - 1
          /\ Additions(file_hashes, DOMAIN file_hashes) < DUP_CAP - 1 + MaxDupAdds
    /\ file_hashes' = add_file_hash(file_hashes, file_path, file_hash, peer_ip)
    /\ duplicates_file' = save_duplicates(file_hashes', duplicates_file).file
    /\ dup_result' = [NoResult EXCEPT
          !.op = "add_file_hash", !.path = file_path, !.hash = file_hash,
          !.peer = peer_ip,
          !.raised = save_duplicates(file_hashes', duplicates_file).raised]
    /\ UNCHANGED DupFrame

\* duplicate_manager.is_duplicate(file_path, file_hash, peer_ip)
IsDuplicate(file_path, file_hash, peer_ip) ==
    /\ dup_result' = [NoResult EXCEPT
          !.op = "is_duplicate", !.path = file_path, !.hash = file_hash,
          !.peer = peer_ip,
          !.found = is_duplicate(file_hashes, file_path, file_hash, peer_ip).found,
          !.entry = is_duplicate(file_hashes, file_path, file_hash, peer_ip).entry]
    /\ file_hashes' = AfterGet(file_hashes, DupKey(file_path, file_hash))
    /\ UNCHANGED <<DupFrame, duplicates_file>>

\* duplicate_manager.get_duplicate_info(file_path, file_hash)
GetDuplicateInfo(file_path, file_hash) ==
    /\ dup_result' = [NoResult EXCEPT
          !.op = "get_duplicate_info", !.path = file_path, !.hash = file_hash,
          !.list = get_duplicate_info(file_hashes, file_path, file_hash)]
    /\ file_hashes' = AfterGet(file_hashes, DupKey(file_path, file_hash))
    /\ UNCHANGED <<DupFrame, duplicates_file>>

\* duplicate_manager.clear_duplicates()
ClearDuplicates ==
    /\ file_hashes' = clear_duplicates
    /\ duplicates_file' = save_duplicates(file_hashes', duplicates_file).file
    /\ dup_result' = [NoResult EXCEPT
          !.op = "clear_duplicates",
          !.raised = save_duplicates(file_hashes', duplicates_file).raised]
    /\ UNCHANGED DupFrame

\* the application is started again: DuplicateManager.__init__
NewDuplicateManager ==
    /\ file_hashes' = load_duplicates(duplicates_file)
    /\ dup_result' = [NoResult EXCEPT !.op = "__init__"]
    /\ UNCHANGED <<DupFrame, duplicates_file>>

\* the home directory turns read-only, runs full, or is in order again
FileSystemTurns(fs) ==
    /\ fs # duplicates_file.fs
    /\ duplicates_file' = [duplicates_file EXCEPT !.fs = fs]
    /\ UNCHANGED <<DupFrame, file_hashes, dup_result>>

(***************************************************************************)
(* add_file_hash called from several threads at once.  Each action is one   *)
(* stretch of a thread between two points where the interpreter may switch  *)
(* to another thread; in v3.0 the body runs under self.lock.                *)
(***************************************************************************)
RaceFrame == <<sendVars, flagVars, selected_paths, revision, is_listening, disk,
               recv, history, link, hist_thread, discVars, settings>>

\* thread t records the file "a" it took from its own folder; every thread's
\* file has the same name and content, so the same key
CallPath(t) == <<"/", "s" \o ToString(t), "a">>

CallHash == [hex |-> "h", upper |-> FALSE]

CallKey(t) == DupKey(CallPath(t), CallHash)

\* with self.lock: in v3.0; v2.1 has no lock and goes straight in
AddEnter(t) ==
    /\ dup_thread[t].pc = "idle"
    /\ revision = "v3" => dup_lock = 0
    /\ dup_lock' = IF revision = "v3" THEN t ELSE dup_lock
    /\ dup_thread' = [dup_thread EXCEPT ![t].pc = "append"]
    /\ UNCHANGED <<RaceFrame, file_hashes, duplicates_file, dup_result>>

\* self.file_hashes[key].append(entry)
AddAppend(t) ==
    /\ dup_thread[t].pc = "append"
    /\ LET old == Entries(file_hashes, CallKey(t))
           entry == [path |-> CallPath(t), hash |-> CallHash, peer |-> "p1",
                     timestamp |-> Now(old)]
       IN  file_hashes' = (CallKey(t) :> Append(old, entry)) @@ file_hashes
    /\ dup_thread' = [dup_thread EXCEPT ![t].pc = "len"]
    /\ UNCHANGED <<RaceFrame, duplicates_file, dup_result, dup_lock>>

\* if len(self.file_hashes[key]) > 1000:
AddLen(t) ==
    /\ dup_thread[t].pc = "len"
    /\ dup_thread' = [dup_thread EXCEPT
          ![t].pc = IF Len(file_hashes[CallKey(t)]) > DUP_CAP THEN "slice" ELSE "save"]
    /\ UNCHANGED <<RaceFrame, file_hashes, duplicates_file, dup_result, dup_lock>>

\* the right-hand side self.file_hashes[key][-1000:]
AddSlice(t) ==
    /\ dup_thread[t].pc = "slice"
    /\ dup_thread' = [dup_thread EXCEPT
          ![t].pc = "store", ![t].tmp = LastN(file_hashes[CallKey(t)], DUP_CAP)]
    /\ UNCHANGED <<RaceFrame, file_hashes, duplicates_file, dup_result, dup_lock>>

\* the assignment self.file_hashes[key] = ...
AddStore(t) ==
    /\ dup_thread[t].pc = "store"
    /\ file_hashes' = [file_hashes EXCEPT ![CallKey(t)] = dup_thread[t].tmp]
    /\ dup_thread' = [dup_thread EXCEPT ![t].pc = "save", ![t].tmp = <<>>]
    /\ UNCHANGED <<RaceFrame, duplicates_file, dup_result, dup_lock>>

\* self._save_duplicates(), the end of the with block, and the return
AddSave(t) ==
    /\ dup_thread[t].pc = "save"
    /\ duplicates_file' = save_duplicates(file_hashes, duplicates_file).file
    /\ dup_lock' = IF revision = "v3" THEN 0 ELSE dup_lock
    /\ dup_thread' = [dup_thread EXCEPT ![t].pc = "done"]
    /\ dup_result' = [NoResult EXCEPT
          !.op = "add_file_hash", !.path = CallPath(t), !.hash = CallHash,
          !.peer = "p1"]
    /\ UNCHANGED <<RaceFrame, file_hashes>>

\* get_duplicate_info from one more thread, under self.lock in v3.0
GetInfoMeanwhile ==
    /\ revision = "v3" => dup_lock = 0
    /\ dup_result' = [NoResult EXCEPT
          !.op = "get_duplicate_info", !.path = CallPath(1), !.hash = CallHash,
          !.list = get_duplicate_info(file_hashes, CallPath(1), CallHash)]
    /\ UNCHANGED <<RaceFrame, file_hashes, duplicates_file, dup_lock, dup_thread>>

(***************************************************************************)
(* _add_history called from several threads at once: the _perform_send      *)
(* workers and the threads of the accepted connections call it themselves.  *)
(* Neither revision takes a lock.                                           *)
(***************************************************************************)
HistFrame == <<sendVars, flagVars, selected_paths, revision, is_listening, disk,
               recv, file_hashes, duplicates_file, link, dup_result, dup_lock,
               dup_thread, discVars, settings>>

\* the history after n transfers
FilledHistory(n) ==
    [i \in 1..n |-> [direction |-> "Send", who |-> 0, status |-> StatusOK,
                     verified |-> <<1, 1>>]]

\* the record of thread t: the session it has just finished
HistRecord(t) ==
    [direction |-> "Receive", who |-> t, status |-> StatusOK, verified |-> <<1, 1>>]

\* the call, up to the record being built
HistEnter(t) ==
    /\ hist_thread[t].pc = "idle"
    /\ hist_thread' = [hist_thread EXCEPT ![t].pc = "append"]
    /\ UNCHANGED <<HistFrame, history>>

\* self.history.append(record)
HistAppend(t) ==
    /\ hist_thread[t].pc = "append"
    /\ history' = Append(history, HistRecord(t))
    /\ hist_thread' = [hist_thread EXCEPT ![t].pc = "len"]
    /\ UNCHANGED HistFrame

\* if len(self.history) > 1000: (v3.0: 2000)
HistLen(t) ==
    /\ hist_thread[t].pc = "len"
    /\ hist_thread' = [hist_thread EXCEPT
          ![t].pc = IF Len(history) > HistoryCap THEN "slice" ELSE "save"]
    /\ UNCHANGED <<HistFrame, history>>

\* the right-hand side self.history[-1000:]
HistSlice(t) ==
    /\ hist_thread[t].pc = "slice"
    /\ hist_thread' = [hist_thread EXCEPT
          ![t].pc = "store", ![t].tmp = LastN(history, HistoryCap)]
    /\ UNCHANGED <<HistFrame, history>>

\* the assignment self.history = ...
HistStore(t) ==
    /\ hist_thread[t].pc = "store"
    /\ history' = hist_thread[t].tmp
    /\ hist_thread' = [hist_thread EXCEPT ![t].pc = "save", ![t].tmp = <<>>]
    /\ UNCHANGED HistFrame

\* self._save_history() and the return
HistSave(t) ==
    /\ hist_thread[t].pc = "save"
    /\ hist_thread' = [hist_thread EXCEPT ![t].pc = "done"]
    /\ UNCHANGED <<HistFrame, history>>

(***************************************************************************)
(* Discovery: start_discovery and the broadcasting thread, the listener     *)
(* bound to discovery_port.  A datagram in flight is one copy of what a     *)
(* sendto call sent, on its way to one device: a broadcast has a copy for   *)
(* every device of the domain, the sender's own listener included.          *)
(***************************************************************************)
MaxRounds == 1

MaxStray == 1

\* v2.1 _broadcast_discovery: for _ in range(3)
PROBE_REPEATS == 3

\* v3.0 start_discovery: the four entries of networks
PROBE_NETWORKS == 4

DiscFrame == <<sendVars, flagVars, selected_paths, revision, is_listening, disk,
               recv, history, file_hashes, duplicates_file, link, dup_result,
               dup_lock, dup_thread, hist_thread, settings>>

\* the sendto calls of one scan
Burst == IF revision = "v2" THEN PROBE_REPEATS ELSE PROBE_NETWORKS

\* what the datagram starts with: v2.1 puts a prefix before the JSON text,
\* v3.0 sends the JSON text alone
Announcement == IF revision = "v2" THEN "GOODLUCK_DISCOVERY:" ELSE "{"

Response == "GOODLUCK_RESPONSE:"

\* what follows the prefix of a datagram: the text of a JSON object, the same
\* with bytes in it that are not UTF-8, the text of a JSON list, or no JSON
Payloads == {"object", "object+junk", "list", "junk"}

\* data.decode: v2.1 decodes with errors='ignore', which leaves the bytes
\* out that are not UTF-8; v3.0 decodes strictly and raises on them
decode(payload) ==
    IF payload # "object+junk" THEN payload
    ELSE IF revision = "v2" THEN "object" ELSE "junk"

\* json.loads and info.get('name', ...) go through: the text is a JSON
\* object; any other text raises in one or the other
Parses(m) == decode(m.payload) = "object"

\* get_local_ip: the address of the socket connected to 8.8.8.8, or the
\* loopback address when connect raises
get_local_ip(d) == IF device[d].routed THEN d ELSE "127.0.0.1"

\* self.discovered_devices[addr[0]] = device_name
Discovered(table, addr, name) == (addr :> name) @@ table

\* the copies of one broadcast: one for the listener of every device
Copies(d, n) ==
    {[kind |-> Announcement, payload |-> "object", name |-> device[d].message,
      src |-> d, sport |-> "ephemeral", rcpt |-> x, dport |-> "discovery_port",
      n |-> n] :
        x \in Devices}

\* the scans started so far, on all devices
RECURSIVE Scans(_)
Scans(ds) ==
    IF ds = {} THEN 0
    ELSE LET d == CHOOSE x \in ds : TRUE
         IN  device[d].rounds + Scans(ds \ {d})

\* start_discovery, and the start of the broadcasting thread up to the
\* message it builds
start_discovery(d) ==
    /\ ~device[d].is_discovering
    /\ Scans(Devices) < MaxRounds
    /\ device' = [device EXCEPT
          ![d].is_discovering = TRUE,
          ![d].discovered_devices = IF revision = "v2" THEN << >> ELSE @,
          ![d].left = Burst,
          ![d].rounds = @ + 1,
          ![d].message = device[d].device_name]
    /\ UNCHANGED <<DiscFrame, datagrams, sent>>

\* one sock.sendto of the broadcasting thread; v2.1 sends to 255.255.255.255,
\* v3.0 to the broadcast address of four fixed networks, of which the one the
\* devices are on, if any, carries the datagram to them; a sendto that raises
\* is passed over and puts nothing in flight
Broadcast(d) ==
    /\ device[d].left > 0
    /\ device' = [device EXCEPT ![d].left = @ - 1]
    /\ sent' = sent + 1
    /\ \/ datagrams' = datagrams \cup Copies(d, device[d].left)
       \/ UNCHANGED datagrams
    /\ UNCHANGED DiscFrame

\* v2.1: _stop_discovery, four seconds after start_discovery; v3.0: the
\* finally block of the broadcasting thread
stop_discovery(d) ==
    /\ device[d].is_discovering
    /\ device[d].left = 0
    /\ device' = [device EXCEPT ![d].is_discovering = FALSE]
    /\ UNCHANGED <<DiscFrame, datagrams, sent>>

Replies_ToAll(kind) == revision = "v2"

\* whether the listener answers a datagram of this kind
Replies(kind) == revision = "v2" /\ kind = "GOODLUCK_DISCOVERY:"

\* whether the listener takes the sender of a datagram into the table
Records(d, m) ==
    IF revision = "v2"
    THEN m.kind \in {"GOODLUCK_DISCOVERY:", "GOODLUCK_RESPONSE:"}
         /\ Parses(m)
         /\ m.src # get_local_ip(d)
    ELSE m.kind = "{" /\ Parses(m)

\* the listener of d: one recvfrom and what is done with the datagram
Listen(d, m) ==
    /\ m \in datagrams
    /\ m.rcpt = d
    /\ m.dport = "discovery_port"
    /\ device' = [device EXCEPT ![d].discovered_devices =
                     IF Records(d, m) THEN Discovered(@, m.src, m.name) ELSE @]
    /\ IF Replies(m.kind) /\ Parses(m)
       THEN /\ datagrams' = (datagrams \ {m}) \cup
                   {[kind |-> Response, payload |-> "object",
                     name |-> device[d].device_name, src |-> d,
                     sport |-> "discovery_port", rcpt |-> m.src, dport |-> m.sport,
                     n |-> m.n]}
            /\ sent' = sent + 1
       ELSE /\ datagrams' = datagrams \ {m}
            /\ UNCHANGED sent
    /\ UNCHANGED DiscFrame

\* a datagram arrives at the socket the broadcast was sent from, which is
\* never read from and is closed when the thread ends
Unread(m) ==
    /\ m \in datagrams
    /\ m.dport = "ephemeral"
    /\ datagrams' = datagrams \ {m}
    /\ UNCHANGED <<DiscFrame, device, sent>>

\* a datagram sent to the discovery port of d alone by a device that answers
\* there: a response in v2.1, which tells the two kinds apart, JSON text in v3.0
Stray(d, x) ==
    /\ d # x
    /\ sent < MaxStray
    /\ \A m \in datagrams : m.n # 0
    /\ datagrams' = datagrams \cup
          {[kind |-> IF revision = "v2" THEN Response ELSE Announcement,
            payload |-> "object", name |-> "Other-" \o x, src |-> x,
            sport |-> "discovery_port", rcpt |-> d, dport |-> "discovery_port",
            n |-> 0]}
    /\ sent' = sent + 1
    /\ UNCHANGED <<DiscFrame, device>>

\* a datagram sent to the discovery port of d by any program on x: with one
\* of the two prefixes, another one, or none before the text
Prefixes == {"GOODLUCK_DISCOVERY:", "GOODLUCK_RESPONSE:", "HELLO:", "{"}

Foreign(d, x, kind, payload) ==
    /\ d # x
    /\ sent < MaxStray
    /\ \A m \in datagrams : m.n # 0
    /\ datagrams' = datagrams \cup
          {[kind |-> kind, payload |-> payload, name |-> "Other-" \o x, src |-> x,
            sport |-> "discovery_port", rcpt |-> d, dport |-> "discovery_port",
            n |-> 0]}
    /\ sent' = sent + 1
    /\ UNCHANGED <<DiscFrame, device>>

\* save_device_name, the first change of a name in the domain
save_device_name(d, name) ==
    /\ \A x \in Devices : device[x].device_name = NoDevice(x, TRUE).device_name
    /\ device' = [device EXCEPT ![d].device_name = name]
    /\ UNCHANGED <<DiscFrame, datagrams, sent>>

(***************************************************************************)
(* The settings tab of v3.0: two entry fields and the button next to each.  *)
(***************************************************************************)
ConfFrame == <<sendVars, flagVars, selected_paths, revision, is_listening, disk,
               recv, history, file_hashes, duplicates_file, link, dup_result,
               dup_lock, dup_thread, hist_thread, discVars>>

Digits == <<"0", "1", "2", "3", "4", "5", "6", "7", "8", "9">>

IsDigit(c) == \E i \in 1..10 : Digits[i] = c

DigitOf(c) == (CHOOSE i \in 1..10 : Digits[i] = c) - 1

\* str.strip of blanks
RECURSIVE strip(_)
strip(t) ==
    IF t # <<>> /\ Head(t) = " " THEN strip(Tail(t))
    ELSE IF t # <<>> /\ t[Len(t)] = " " THEN strip(SubSeq(t, 1, Len(t) - 1))
    ELSE t

\* the digits of a decimal literal: one underscore may stand between two digits
IsLiteral(t) ==
    /\ t # <<>>
    /\ IsDigit(t[1])
    /\ IsDigit(t[Len(t)])
    /\ \A i \in 1..Len(t) :
          IsDigit(t[i]) \/ (t[i] = "_" /\ IsDigit(t[i - 1]) /\ IsDigit(t[i + 1]))

RECURSIVE LiteralValue(_, _)
LiteralValue(t, acc) ==
    IF t = <<>> THEN acc
    ELSE IF Head(t) = "_" THEN LiteralValue(Tail(t), acc)
    ELSE LiteralValue(Tail(t), 10 * acc + DigitOf(Head(t)))

\* int(text): blanks around the literal and a sign before it are allowed;
\* anything else raises ValueError
int(text) ==
    LET t == strip(text)
        signed == t # <<>> /\ t[1] \in {"+", "-"}
        body == IF signed THEN Tail(t) ELSE t
    IN  IF IsLiteral(body)
        THEN [raised |-> FALSE,
              value |-> IF signed /\ t[1] = "-" THEN 0 - LiteralValue(body, 0)
                        ELSE LiteralValue(body, 0)]
        ELSE [raised |-> TRUE, value |-> 0]

\* what a user may leave in an entry field
Texts ==
    {<<>>, <<"a">>, <<"1", ".", "5">>, <<"-", "1">>,
     <<"0">>, <<"1">>, <<" ", "7", " ">>, <<"1", "0">>,
     <<"1", "1">>, <<"1", "_", "0">>, <<"4">>,
     <<"5", "1", "2">>, <<"1", "0", "2", "4", "0">>,
     <<"1", "0", "2", "4", "1">>}

\* the user types into the field next to "Chunk size (KB)"
set_chunk_size_var(text) ==
    /\ revision = "v3"
    /\ settings' = [settings EXCEPT !.chunk_size_var = text]
    /\ UNCHANGED ConfFrame

\* the user types into the field next to "Max concurrent transfers"
set_concurrent_var(text) ==
    /\ revision = "v3"
    /\ settings' = [settings EXCEPT !.concurrent_var = text]
    /\ UNCHANGED ConfFrame

\* if new_chunk_size < 1024 or new_chunk_size > 10 * 1024 * 1024
ChunkSizeRejected(new_chunk_size) ==
    new_chunk_size < 1024 \/ new_chunk_size > 10 * 1024 * 1024

ConcurrentRejected_Eleven(new_concurrent) == new_concurrent < 1 \/ new_concurrent > 11

\* if new_concurrent < 1 or new_concurrent > 10
ConcurrentRejected(new_concurrent) == new_concurrent < 1 \/ new_concurrent > 10

apply_performance_settings ==
    /\ revision = "v3"
    /\ LET n == int(settings.chunk_size_var)
           new_chunk_size == n.value * 1024
       IN  settings' =
               IF n.raised \/ ChunkSizeRejected(new_chunk_size)
               THEN [settings EXCEPT !.dialog = "showerror"]
               ELSE [settings EXCEPT !.CHUNK_SIZE = new_chunk_size,
                                     !.dialog = "showinfo"]
    /\ UNCHANGED ConfFrame

apply_concurrent_settings ==
    /\ revision = "v3"
    /\ LET n == int(settings.concurrent_var)
           new_concurrent == n.value
       IN  settings' =
               IF n.raised \/ ConcurrentRejected(new_concurrent)
               THEN [settings EXCEPT !.dialog = "showerror"]
               ELSE [settings EXCEPT !.MAX_CONCURRENT_TRANSFERS = new_concurrent,
                                     !.max_workers = new_concurrent,
                                     !.dialog = "showinfo"]
    /\ UNCHANGED ConfFrame

(***************************************************************************)
(* A manifest from one process to another                                  *)
(***************************************************************************)
LinkFrame == <<sendVars, flagVars, selected_paths, revision, is_listening, disk,
               recv, history, file_hashes, duplicates_file, dup_result, auxVars>>

\* _gather_files_for_send over the selection: the files picked one by one and
\* the files of the folder
GatherManifest ==
    /\ link.pc = "selected"
    /\ link' = [link EXCEPT !.pc = "gathered", !.files.head = gather_files_for_send]
    /\ UNCHANGED LinkFrame

\* _perform_send up to sock.sendall(metadata_bytes); struct.pack raises when
\* the length does not fit four bytes
SendManifest ==
    /\ link.pc = "gathered"
    /\ LET wire == EncodeManifest(link.files)
       IN  link' = IF wire.len \div 65536 < 65536
                   THEN [link EXCEPT !.pc = "sent", !.wire = wire]
                   ELSE [link EXCEPT !.pc = "raised"]
    /\ UNCHANGED LinkFrame

\* _handle_incoming_transfer up to the loop over the files
ReceiveManifest ==
    /\ link.pc = "sent"
    /\ link' = [link EXCEPT !.pc = "received", !.out = DecodeHeader(link.wire)]
    /\ UNCHANGED LinkFrame

(***************************************************************************)
(* Specifications                                                          *)
(***************************************************************************)
\* _init_variables: nothing queued, nothing running, both flags down
InitSend ==
    /\ transfer_queue = <<>>
    /\ current_transfers = <<>>
    /\ transfer_paused = FALSE
    /\ transfer_cancelled = FALSE
    /\ after_checks = 0
    /\ submitted = 0
    /\ history = <<>>
    /\ file_hashes = << >>
    /\ duplicates_file = NoFile
    /\ revision = "v2"
    /\ is_listening = FALSE
    /\ disk = << >>
    /\ recv = << >>
    /\ link = NoLink
    /\ dup_result = NoResult
    /\ AuxIdle

\* the user's selection is any list of up to MaxFiles files of up to MaxChunks
\* chunks each; up to MaxJobs submissions of it
Init ==
    /\ InitSend
    /\ send = [j \in 1..MaxJobs |-> NotSubmitted]
    /\ selected_paths \in UNION {[1..n -> 0..MaxChunks] : n \in 1..MaxFiles}

\* a deeper queue: up to MaxQueueJobs submissions of one empty file
InitQueue ==
    /\ InitSend
    /\ send = [j \in 1..MaxQueueJobs |-> NotSubmitted]
    /\ selected_paths = <<0>>

Next ==
    \/ \E t \in Targets, a \in BOOLEAN : start_transfer(t, a)
    \/ check_transfers
    \/ pause_transfer
    \/ resume_transfer
    \/ cancel_transfer
    \/ \E j \in DOMAIN send : SendConnect(j)
    \/ \E j \in DOMAIN send : SendMetadata(j)
    \/ \E j \in DOMAIN send : SendChunkCheck(j)
    \/ \E j \in DOMAIN send : SendPauseWait(j)
    \/ \E j \in DOMAIN send : SendChunk(j)
    \/ \E j \in DOMAIN send : SendAddDup(j)
    \/ \E j \in DOMAIN send : SendFinalCheck(j)
    \/ \E j \in DOMAIN send : SendRecordOK(j)
    \/ \E j \in DOMAIN send : SendFinally(j)

Spec == Init /\ [][Next]_vars

SpecQueue == InitQueue /\ [][Next]_vars

\* up to MaxJobs submissions of one file of MaxChunks chunks
InitFair ==
    /\ InitSend
    /\ send = [j \in 1..MaxJobs |-> NotSubmitted]
    /\ selected_paths = <<MaxChunks>>

\* the Tk event loop runs every armed root.after callback
FairSpec == InitFair /\ [][Next]_vars /\ WF_vars(check_transfers)

MaxSessions == 1

DownloadPaths == {JoinPath(DOWNLOAD, n) : n \in RelNames}

\* a receiving process: nothing submitted for sending, some files already in
\* the download folder, either revision
InitRecv ==
    /\ transfer_queue = <<>>
    /\ current_transfers = <<>>
    /\ transfer_paused = FALSE
    /\ transfer_cancelled = FALSE
    /\ after_checks = 0
    /\ submitted = 0
    /\ history = <<>>
    /\ file_hashes = << >>
    /\ duplicates_file = NoFile
    /\ send = << >>
    /\ selected_paths = << >>
    /\ revision \in {"v2", "v3"}
    /\ is_listening = FALSE
    /\ \E present \in SUBSET DownloadPaths : disk = [p \in present |-> <<"old">>]
    /\ recv = [s \in 1..MaxSessions |-> NoSession]
    /\ link = NoLink
    /\ dup_result = NoResult
    /\ AuxIdle

NextRecv ==
    \/ start_listening
    \/ \E s \in DOMAIN recv, input \in PeerInputs : RecvAccept(s, input)
    \/ \E s \in DOMAIN recv : RecvHeader(s)
    \/ \E s \in DOMAIN recv : RecvFileTop(s)
    \/ \E s \in DOMAIN recv : RecvChunk(s)
    \/ \E s \in DOMAIN recv : RecvVerify(s)
    \/ \E s \in DOMAIN recv : RecvComplete(s)
    \/ \E s \in DOMAIN recv : RecvFinally(s)

SpecRecv == InitRecv /\ [][NextRecv \/ pause_transfer \/ resume_transfer]_vars

\* what the peers of two connections open at once send: one file, whole and
\* with its digest, or a text that is not JSON, or two files, whole and with
\* their digests, under a file_count of 1, 2 or 3
PairInputs ==
    {[hdr |-> "ok", files |-> <<[rel |-> n, size |-> 1, sha |-> "ok"]>>, cut |-> 1] :
        n \in RelNames}
    \cup {[hdr |-> "garbage", files |-> <<>>, cut |-> 0]}
    \cup {[hdr |-> "miscount", count |-> c, cut |-> 2,
           files |-> <<[rel |-> <<"a">>, size |-> 1, sha |-> "ok"],
                       [rel |-> <<"b">>, size |-> 1, sha |-> "ok"]>>] : c \in 1..3}

\* a receiving process with room for one connection more than MaxSessions
InitRecvPair ==
    /\ transfer_queue = <<>>
    /\ current_transfers = <<>>
    /\ transfer_paused = FALSE
    /\ transfer_cancelled = FALSE
    /\ after_checks = 0
    /\ submitted = 0
    /\ history = <<>>
    /\ file_hashes = << >>
    /\ duplicates_file = NoFile
    /\ send = << >>
    /\ selected_paths = << >>
    /\ revision \in {"v2", "v3"}
    /\ is_listening = FALSE
    /\ \E present \in SUBSET DownloadPaths : disk = [p \in present |-> <<"old">>]
    /\ recv = [s \in 1..MaxSessions + 1 |-> NoSession]
    /\ link = NoLink
    /\ dup_result = NoResult
    /\ AuxIdle

NextRecvPair ==
    \/ start_listening
    \/ \E s \in DOMAIN recv, input \in PairInputs : RecvAccept(s, input)
    \/ \E s \in DOMAIN recv : RecvHeader(s)
    \/ \E s \in DOMAIN recv : RecvFileTop(s)
    \/ \E s \in DOMAIN recv : RecvChunk(s)
    \/ \E s \in DOMAIN recv : RecvVerify(s)
    \/ \E s \in DOMAIN recv : RecvComplete(s)
    \/ \E s \in DOMAIN recv : RecvFinally(s)

SpecRecvPair == InitRecvPair /\ [][NextRecvPair]_vars

\* a receiving process whose peers stop sending and keep the connection open
NextWait ==
    \/ start_listening
    \/ \E s \in DOMAIN recv, input \in PeerInputs : RecvAcceptSilent(s, input)
    \/ \E s \in DOMAIN recv : RecvHeader(s)
    \/ \E s \in DOMAIN recv : RecvFileTop(s)
    \/ \E s \in DOMAIN recv : RecvChunk(s)
    \/ \E s \in DOMAIN recv : RecvVerify(s)
    \/ \E s \in DOMAIN recv : RecvComplete(s)
    \/ \E s \in DOMAIN recv : RecvFinally(s)
    \/ \E s \in DOMAIN recv : RecvTimeout(s)

SpecWait == InitRecv /\ [][NextWait]_vars

\* a sender with a selection of up to MaxFiles files, or of a folder of MaxBulk
\* empty files with at most one file more, and a receiver of either revision
InitLink ==
    /\ transfer_queue = <<>>
    /\ current_transfers = <<>>
    /\ transfer_paused = FALSE
    /\ transfer_cancelled = FALSE
    /\ after_checks = 0
    /\ submitted = 0
    /\ history = <<>>
    /\ file_hashes = << >>
    /\ duplicates_file = NoFile
    /\ send = << >>
    /\ revision \in {"v2", "v3"}
    /\ is_listening = FALSE
    /\ disk = << >>
    /\ recv = << >>
    /\ dup_result = NoResult
    /\ AuxIdle
    /\ selected_paths \in UNION {[1..n -> 0..MaxSize] : n \in 0..MaxFiles}
    /\ \E bulk \in {0, MaxBulk} :
          /\ Len(selected_paths) + bulk > 0
          /\ bulk > 0 => Len(selected_paths) <= 1
          /\ link = [NoLink EXCEPT !.pc = "selected", !.files.bulk = bulk]

NextLink == GatherManifest \/ SendManifest \/ ReceiveManifest

SpecLink == InitLink /\ [][NextLink]_vars

\* a DuplicateManager that is empty, or one transfer short of the cap for one
\* file and peer; up to MaxDupAdds further records
InitDup ==
    /\ transfer_queue = <<>>
    /\ current_transfers = <<>>
    /\ transfer_paused = FALSE
    /\ transfer_cancelled = FALSE
    /\ after_checks = 0
    /\ submitted = 0
    /\ history = <<>>
    /\ send = << >>
    /\ selected_paths = << >>
    /\ revision \in {"v2", "v3"}
    /\ is_listening = FALSE
    /\ disk = << >>
    /\ recv = << >>
    /\ link = NoLink
    /\ dup_result = NoResult
    /\ AuxIdle
    /\ duplicates_file \in {NoFile, Written(Filled(DUP_CAP - 1))}
    /\ file_hashes = load_duplicates(duplicates_file)

NextDup ==
    \/ \E p \in DupPaths, h \in DupHashes, a \in DupPeers : AddFileHash(p, h, a)
    \/ \E p \in DupPaths, h \in DupHashes, a \in DupPeers : IsDuplicate(p, h, a)
    \/ \E p \in DupPaths, h \in DupHashes : GetDuplicateInfo(p, h)
    \/ ClearDuplicates

SpecDup == InitDup /\ [][NextDup]_vars

\* a DuplicateManager that starts without a file, the application started
\* again at any time, on a file system that may refuse the write
InitDupFile ==
    /\ InitDup
    /\ duplicates_file = NoFile

NextDupFile ==
    \/ \E h \in DupHashes, a \in DupPeers : AddFileHash(<<"/", "x", "a">>, h, a)
    \/ \E h \in DupHashes, a \in DupPeers : IsDuplicate(<<"/", "x", "a">>, h, a)
    \/ \E h \in DupHashes : GetDuplicateInfo(<<"/", "x", "a">>, h)
    \/ ClearDuplicates
    \/ NewDuplicateManager
    \/ \E fs \in FileSystems : FileSystemTurns(fs)

SpecDupFile == InitDupFile /\ [][NextDupFile]_vars

\* a DuplicateManager that is empty, or holds DUP_CAP records under one key, or
\* one less; every thread of DupThreads makes one add_file_hash call
InitDupRace ==
    /\ transfer_queue = <<>>
    /\ current_transfers = <<>>
    /\ transfer_paused = FALSE
    /\ transfer_cancelled = FALSE
    /\ after_checks = 0
    /\ submitted = 0
    /\ history = <<>>
    /\ send = << >>
    /\ selected_paths = << >>
    /\ revision \in {"v2", "v3"}
    /\ is_listening = FALSE
    /\ disk = << >>
    /\ recv = << >>
    /\ link = NoLink
    /\ dup_result = NoResult
    /\ AuxIdle
    /\ duplicates_file \in {NoFile, Written(Filled(DUP_CAP - 1)), Written(Filled(DUP_CAP))}
    /\ file_hashes = load_duplicates(duplicates_file)

NextDupRace ==
    \/ \E t \in DupThreads : AddEnter(t)
    \/ \E t \in DupThreads : AddAppend(t)
    \/ \E t \in DupThreads : AddLen(t)
    \/ \E t \in DupThreads : AddSlice(t)
    \/ \E t \in DupThreads : AddStore(t)
    \/ \E t \in DupThreads : AddSave(t)
    \/ GetInfoMeanwhile

SpecDupRace == InitDupRace /\ [][NextDupRace]_vars

\* a history that is empty, at its cap, or one record short of it; every
\* thread of DupThreads makes one _add_history call
InitHistRace ==
    /\ transfer_queue = <<>>
    /\ current_transfers = <<>>
    /\ transfer_paused = FALSE
    /\ transfer_cancelled = FALSE
    /\ after_checks = 0
    /\ submitted = 0
    /\ send = << >>
    /\ selected_paths = << >>
    /\ revision \in {"v2", "v3"}
    /\ is_listening = FALSE
    /\ disk = << >>
    /\ recv = << >>
    /\ link = NoLink
    /\ dup_result = NoResult
    /\ AuxIdle
    /\ duplicates_file = NoFile
    /\ file_hashes = << >>
    /\ history \in {<<>>, FilledHistory(HistoryCap - 1), FilledHistory(HistoryCap)}

NextHistRace ==
    \/ \E t \in DupThreads : HistEnter(t)
    \/ \E t \in DupThreads : HistAppend(t)
    \/ \E t \in DupThreads : HistLen(t)
    \/ \E t \in DupThreads : HistSlice(t)
    \/ \E t \in DupThreads : HistStore(t)
    \/ \E t \in DupThreads : HistSave(t)

SpecHistRace == InitHistRace /\ [][NextHistRace]_vars

\* the devices of one broadcast domain, all listening, with or without a
\* route to the outside; up to MaxRounds scans are started
InitDisc ==
    /\ transfer_queue = <<>>
    /\ current_transfers = <<>>
    /\ transfer_paused = FALSE
    /\ transfer_cancelled = FALSE
    /\ after_checks = 0
    /\ submitted = 0
    /\ send = << >>
    /\ selected_paths = << >>
    /\ revision \in {"v2", "v3"}
    /\ is_listening = FALSE
    /\ disk = << >>
    /\ recv = << >>
    /\ link = NoLink
    /\ dup_result = NoResult
    /\ duplicates_file = NoFile
    /\ file_hashes = << >>
    /\ history = <<>>
    /\ dup_lock = 0
    /\ dup_thread = [t \in DupThreads |-> NoCall]
    /\ hist_thread = [t \in DupThreads |-> NoCall]
    /\ settings = DefaultSettings
    /\ \E routed \in BOOLEAN : device = [d \in Devices |-> NoDevice(d, routed)]
    /\ datagrams = {}
    /\ sent = 0

NextDisc ==
    \/ \E d \in Devices : start_discovery(d)
    \/ \E d \in Devices : Broadcast(d)
    \/ \E d \in Devices : stop_discovery(d)
    \/ \E d \in Devices : \E m \in datagrams : Listen(d, m)
    \/ \E m \in datagrams : Unread(m)
    \/ \E d \in Devices, x \in Devices : Stray(d, x)
    \/ \E d \in Devices : save_device_name(d, "New-" \o d)

SpecDisc == InitDisc /\ [][NextDisc]_vars

\* the same devices, and datagrams of any make coming to their discovery ports
NextDiscIn ==
    \/ \E d \in Devices : start_discovery(d)
    \/ \E d \in Devices : Broadcast(d)
    \/ \E d \in Devices : stop_discovery(d)
    \/ \E d \in Devices : \E m \in datagrams : Listen(d, m)
    \/ \E m \in datagrams : Unread(m)
    \/ \E d \in Devices, x \in Devices : \E kind \in Prefixes, payload \in Payloads :
          Foreign(d, x, kind, payload)

SpecDiscIn == InitDisc /\ [][NextDiscIn]_vars

\* v3.0 with its settings tab open
InitConf == InitDisc /\ revision = "v3"

NextConf ==
    \/ \E text \in Texts : set_chunk_size_var(text)
    \/ \E text \in Texts : set_concurrent_var(text)
    \/ apply_performance_settings
    \/ apply_concurrent_settings

SpecConf == InitConf /\ [][NextConf]_vars

\* either process: one that sends or one that receives
SpecEngine == (Init \/ InitRecv) /\ [][Next \/ NextRecv]_vars

(***************************************************************************)
(* Properties                                                              *)
(***************************************************************************)
JobIds == DOMAIN send

Running == {j \in JobIds : IsAlive(j)}

InQueue(j) == \E i \in 1..Len(transfer_queue) : transfer_queue[i] = j

RecordsOf(direction, who) ==
    SelectSeq(history, LAMBDA r : r.direction = direction /\ r.who = who)

\* C1: the jobs handed to a worker and not yet finished never number more than
\* MAX_CONCURRENT_TRANSFERS, and every submitted job that has not been handed to
\* a worker is in the queue, in state Queued
C1_ConcurrencyLimit ==
    /\ Cardinality(Running) <= MAX_CONCURRENT_TRANSFERS
    /\ \A j \in JobIds :
          /\ j <= submitted => send[j].pc # "None"
          /\ send[j].pc = "Queued" <=> InQueue(j)
          /\ j > submitted => send[j].pc = "None"

\* the pool is saturated with live workers and a further job waits in the queue
C1_Witness ==
    /\ Cardinality(Running) = MAX_CONCURRENT_TRANSFERS
    /\ transfer_queue # <<>>

SendingPhase == {"Connecting", "SendingMetadata", "ChunkCheck", "PauseWait",
                 "SendChunk", "AddDup", "FinalCheck"}

Recorded(j) == Len(RecordsOf("Send", j))

C6_Original ==
    [][\A j \in JobIds :
         (transfer_cancelled /\ send[j].pc = "Queued") => send'[j].pc = "Queued"]_vars

\* C7 as claimed: a start_transfer that begins a fresh run (nothing queued,
\* nothing active) clears an earlier cancel
C7_Original ==
    [][( /\ submitted' = submitted + 1
         /\ transfer_queue = <<>> /\ Running = {}
         /\ \E i \in 1..Len(history) : history[i].status = "Cancelled" )
       => ~transfer_cancelled']_vars

\* C3: jobs are handed to workers in submission order: a job that has left the
\* queue never has an earlier-submitted job still waiting behind it
C3_FifoDispatch ==
    \A a, b \in JobIds :
        (a < b /\ b <= submitted /\ send[b].pc # "Queued") => send[a].pc # "Queued"

\* two jobs waited in the queue together and the older one has been started
\* while the younger one still waits
C3_Witness ==
    /\ submitted = 4
    /\ send[3].pc \notin {"None", "Queued"}
    /\ send[4].pc = "Queued"
    /\ IsAlive(1) \/ IsAlive(2)

SessionIds == DOMAIN recv

\* C4 as claimed: while pause stays set, no send job writes a chunk to its
\* socket and no receive session takes a byte off its connection
C4_Original ==
    [][(transfer_paused /\ transfer_paused') =>
          /\ \A j \in JobIds :
                (IsAlive(j) /\ send'[j].pc # "Dead") => send'[j].wrote = send[j].wrote
          /\ \A s \in SessionIds :
                recv[s].pc = "Body" => recv'[s].rpos = recv[s].rpos]_vars

C9_Original ==
    \A s \in SessionIds :
        recv[s].eof =>
            /\ recv[s].pc = "Finally"
            /\ Len(RecordsOf("Receive", s)) = 1
            /\ RecordsOf("Receive", s)[1].status = StatusFailed

\* the peer streams every declared byte before it closes
FullStream(r) == r.cut = SumSizes(r.files, Len(r.files))

\* C10 as claimed: when the sender streams every declared byte, at every
\* manifest entry the session has consumed exactly the declared sizes of the
\* entries before it, skipped ones included, so the bytes it writes for an
\* entry are the bytes the sender streamed for that entry
C10_Original ==
    \A s \in SessionIds :
        (recv[s].pc \in {"FileTop", "Body"} /\ FullStream(recv[s])) =>
            /\ recv[s].rpos = SumSizes(recv[s].files, recv[s].idx - 1) + recv[s].got
            /\ \A k \in 1..Len(recv[s].hashed) : recv[s].hashed[k] = <<s, recv[s].idx>>

\* C11 as claimed: a job that passed its final check without cancel has
\* written, after the manifest, exactly the declared size of every file; a file
\* gets bytes only once every file before it has been finished
C11_Original ==
    \A j \in JobIds :
        /\ \A i \in 1..Len(send[j].wrote) :
              send[j].wrote[i] > 0 =>
                  /\ send[j].meta
                  /\ i <= send[j].idx
                  /\ \A k \in 1..(i - 1) : send[j].idx > k
        /\ send[j].pc = "RecordOK" =>
              \A i \in 1..Len(send[j].files) : send[j].wrote[i] = send[j].files[i].size

\* the session leaves an entry without having opened its file
Skips(s) ==
    /\ recv[s].pc = "FileTop"
    /\ recv'[s].pc \in {"FileTop", "Complete"}
    /\ recv'[s].idx = recv[s].idx + 1

OverwritesExisting(s) ==
    /\ recv[s].pc = "FileTop"
    /\ recv'[s].pc = "Body"
    /\ Resolve(recv'[s].save) \in DOMAIN disk

\* C13 as claimed: an existing file is opened for writing only in a session in
\* which the overwrite question has been answered with overwrite, and a session
\* puts the question at most once
C13_Original ==
    [][\A s \in SessionIds :
          /\ OverwritesExisting(s) => recv'[s].overwrite_all = "True"
          /\ recv'[s].asked <= 1]_vars

\* C14 as claimed: whatever names the manifest declares, every file there is
\* is a direct child of the download directory
C14_Original ==
    \A p \in DOMAIN disk :
        /\ Len(p) = Len(DOWNLOAD) + 1
        /\ SubSeq(p, 1, Len(DOWNLOAD)) = DOWNLOAD

\* the handler leaves the body loop of an entry and compares the digests
VerifiesEntry(s) == recv[s].pc = "Body" /\ recv'[s].pc # "Body"

\* the digest of the bytes written for entry r.idx
WrittenDigest(r) == Digest(r.hashed)

\* a digest is declared and its hex digits are not those of the bytes written
Mismatch(r) ==
    /\ r.files[r.idx].sha256 # NoHash
    /\ r.files[r.idx].sha256.hex # WrittenDigest(r).hex

\* a digest is declared and its hex digits are those of the bytes written
Match(r) ==
    /\ r.files[r.idx].sha256 # NoHash
    /\ r.files[r.idx].sha256.hex = WrittenDigest(r).hex

\* C15: a digest mismatch on an entry leaves the file on disk as written, writes
\* no history record and does not end the session: the handler goes on to the
\* next entry, or past the loop after the last one; an entry whose digest
\* matches is counted as verified whatever happened to the entries before it
C15_MismatchGoesOn ==
    [][\A s \in SessionIds :
          VerifiesEntry(s) =>
              /\ Mismatch(recv[s]) =>
                    /\ disk' = disk
                    /\ Resolve(recv[s].save) \in DOMAIN disk'
                    /\ history' = history
                    /\ recv'[s].idx = recv[s].idx + 1
                    /\ recv'[s].pc = IF recv[s].idx < Len(recv[s].files)
                                     THEN "FileTop" ELSE "Complete"
                    /\ recv'[s].verified_count = recv[s].verified_count
              /\ Match(recv[s]) =>
                    recv'[s].verified_count = recv[s].verified_count + 1]_vars

\* a two-file session is past its loop: the first file failed its digest and is
\* on disk with the bytes received, the second was received after it and counted
C15_Witness ==
    \E s \in SessionIds :
        /\ recv[s].pc = "Complete"
        /\ is_listening
        /\ Len(recv[s].log) = 2
        /\ recv[s].log[1].kind = "received"
        /\ recv[s].log[2].kind = "received"
        /\ recv[s].files[1].sha256 = Digest(<<"corrupt">>)
        /\ recv[s].files[2].sha256 = Digest(recv[s].log[2].bytes)
        /\ recv[s].files[1].rel # recv[s].files[2].rel
        /\ recv[s].log[1].bytes # <<>>
        /\ Resolve(recv[s].log[1].path) \in DOMAIN disk
        /\ disk[Resolve(recv[s].log[1].path)] = recv[s].log[1].bytes
        /\ recv[s].verified_count = 1

\* the entries of the session so far that were received and whose declared
\* digest has the hex digits of the digest of the bytes written
VerifiedEntries(r) ==
    SelectSeq(r.log, LAMBDA e : /\ e.kind = "received"
                                /\ r.files[e.idx].sha256 # NoHash
                                /\ r.files[e.idx].sha256.hex = Digest(e.bytes).hex)

\* the DuplicateStore records those entries call for, in order
RecordsFor(r) ==
    [i \in 1..Len(VerifiedEntries(r)) |->
        [path |-> VerifiedEntries(r)[i].path,
         hash |-> Digest(VerifiedEntries(r)[i].bytes),
         peer |-> r.peer]]

StoredUnder(key) == IF key \in DOMAIN file_hashes THEN file_hashes[key] ELSE <<>>

\* the records of a list without their time stamps
Essentials(list) ==
    [i \in 1..Len(list) |->
        [path |-> list[i].path, hash |-> list[i].hash, peer |-> list[i].peer]]

\* C16: in every state of a session, and so at its end, the verified counter is
\* the number of received entries whose declared digest equals, letter case
\* aside, the digest of the bytes written; the DuplicateStore holds one record
\* (save path, digest, peer) for each of them, in order, and nothing else: none
\* for an entry that failed the comparison, was skipped or declared no digest
C16_VerifiedCount ==
    \A s \in SessionIds :
        recv[s].pc \notin {"None", "Closed"} =>
            /\ recv[s].verified_count = Len(VerifiedEntries(recv[s]))
            /\ \A key \in DOMAIN file_hashes
                          \cup {DupKey(RecordsFor(recv[s])[i].path, RecordsFor(recv[s])[i].hash) :
                                   i \in 1..Len(RecordsFor(recv[s]))} :
                  Essentials(StoredUnder(key)) =
                      SelectSeq(RecordsFor(recv[s]),
                                LAMBDA e : DupKey(e.path, e.hash) = key)

\* a two-entry session is past its loop: the first entry declared its digest in
\* upper case and was counted, the second declared none and was not
C16_Witness ==
    \E s \in SessionIds :
        /\ recv[s].pc = "Complete"
        /\ Len(recv[s].log) = 2
        /\ recv[s].log[1].kind = "received"
        /\ recv[s].log[2].kind = "received"
        /\ recv[s].files[1].sha256.upper
        /\ recv[s].files[2].sha256 = NoHash
        /\ recv[s].verified_count = 1
        /\ Len(StoredUnder(DupKey(recv[s].log[1].path, Digest(recv[s].log[1].bytes)))) = 1

\* C17 as claimed: a session whose length prefix declares more than the
\* ceiling has read no byte of metadata, has decoded no entry, has touched no
\* file and is in its failure exit with one Failed record; a session whose
\* prefix declares at most the ceiling, and whose metadata arrived and is JSON,
\* got past the header
C17_Original ==
    \A s \in SessionIds :
        (recv[s].pc \notin {"None", "Header", "Closed"} /\ Len(recv[s].wire.prefix) = 4) =>
            IF unpack_I(recv[s].wire.prefix) > METADATA_CEILING
            THEN /\ recv[s].meta_read = 0
                 /\ recv[s].idx = 0
                 /\ recv[s].log = <<>>
                 /\ recv[s].pc = "Finally"
                 /\ Len(RecordsOf("Receive", s)) = 1
                 /\ RecordsOf("Receive", s)[1].status = StatusFailed
            ELSE (recv[s].wire.valid /\ recv[s].wire.avail = recv[s].wire.len) =>
                     /\ recv[s].idx >= 1
                     /\ recv[s].meta_read = unpack_I(recv[s].wire.prefix)

\* the receiver decoded the manifest, and what it decoded is what was gathered:
\* the count, and entry by entry the name, the size and the digest
SameManifest ==
    /\ link.out.ok
    /\ link.out.total_files = FLen(link.files)
    /\ Len(link.out.files.head) = Len(link.files.head)
    /\ link.out.files.bulk = link.files.bulk
    /\ \A i \in 1..Len(link.files.head) :
          /\ link.out.files.head[i].rel = link.files.head[i].rel
          /\ link.out.files.head[i].size = link.files.head[i].size
          /\ link.out.files.head[i].sha256 = link.files.head[i].sha256

IsTheNewRecord(e) ==
    /\ e.path = dup_result'.path
    /\ e.hash = dup_result'.hash
    /\ e.peer = dup_result'.peer

\* C19: whatever calls are made, every key holds at most DUP_CAP records; an
\* add_file_hash on a key that holds DUP_CAP records drops the oldest record
\* of that key and nothing else, keeps the others in their order and puts the
\* new record last; on a key with fewer records it only appends; no other key
\* changes, and is_duplicate and get_duplicate_info change nothing
C19_CapPerKey ==
    [][/\ \A key \in DOMAIN file_hashes' : Len(file_hashes'[key]) <= DUP_CAP
       /\ dup_result'.op = "add_file_hash" =>
             LET key == DupKey(dup_result'.path, dup_result'.hash)
                 old == StoredUnder(key)
                 new == file_hashes'[key]
             IN  /\ IF Len(old) = DUP_CAP
                    THEN /\ Len(new) = DUP_CAP
                         /\ SubSeq(new, 1, DUP_CAP - 1) = Tail(old)
                    ELSE /\ Len(new) = Len(old) + 1
                         /\ SubSeq(new, 1, Len(old)) = old
                 /\ IsTheNewRecord(new[Len(new)])
                 /\ \A k \in DOMAIN file_hashes' \ {key} :
                       k \in DOMAIN file_hashes /\ file_hashes'[k] = file_hashes[k]
       /\ dup_result'.op \in {"is_duplicate", "get_duplicate_info"} =>
             file_hashes' = file_hashes]_vars

\* a key that held DUP_CAP records got one more: the record of the first
\* transfer is gone, the second is now the oldest, the new one is the last
C19_Witness ==
    /\ dup_result.op = "add_file_hash"
    /\ Len(StoredUnder(DupKey(dup_result.path, dup_result.hash))) = DUP_CAP
    /\ StoredUnder(DupKey(dup_result.path, dup_result.hash))[1].timestamp = 2
    /\ StoredUnder(DupKey(dup_result.path, dup_result.hash))[DUP_CAP].timestamp = DUP_CAP + 1
    /\ StoredUnder(DupKey(dup_result.path, dup_result.hash))[DUP_CAP].peer = "p2"

\* the records the store retains that an is_duplicate call is about: under the
\* key of the hash and the base name, with the hash and the peer of the call
Retained(file_path, file_hash, peer_ip) ==
    LET list == StoredUnder(HexStr(file_hash) \o "_" \o basename(file_path))
    IN  {i \in 1..Len(list) : list[i].hash = file_hash /\ list[i].peer = peer_ip}

\* C20: is_duplicate answers true exactly when the store retains a record under
\* the key of hash and base name whose hash and peer are those of the call, and
\* then returns such a record, which has the base name, the hash and the peer
\* asked for; otherwise it answers false and returns no record
C20_IsDuplicate ==
    dup_result.op = "is_duplicate" =>
        LET hits == Retained(dup_result.path, dup_result.hash, dup_result.peer)
            list == StoredUnder(HexStr(dup_result.hash) \o "_" \o basename(dup_result.path))
        IN  /\ dup_result.found <=> hits # {}
            /\ dup_result.found =>
                  /\ \E i \in hits : list[i] = dup_result.entry
                  /\ dup_result.entry.hash = dup_result.hash
                  /\ dup_result.entry.peer = dup_result.peer
                  /\ basename(dup_result.entry.path) = basename(dup_result.path)
            /\ ~dup_result.found => dup_result.entry = NoEntry

\* is_duplicate answered false although the key it looked under holds a record:
\* one of another hash whose key text is the same, or one of another peer
C20_Witness ==
    /\ dup_result.op = "is_duplicate"
    /\ ~dup_result.found
    /\ \E i \in 1..Len(StoredUnder(DupKey(dup_result.path, dup_result.hash))) :
          StoredUnder(DupKey(dup_result.path, dup_result.hash))[i].hash # dup_result.hash
    /\ \E k \in DOMAIN file_hashes : \E i \in 1..Len(file_hashes[k]) :
          /\ file_hashes[k][i].hash = dup_result.hash
          /\ basename(file_hashes[k][i].path) = basename(dup_result.path)
          /\ file_hashes[k][i].peer # dup_result.peer


\* a call of is_duplicate or get_duplicate_info
QueryStep ==
    \/ \E p \in DupPaths, h \in DupHashes, a \in DupPeers : IsDuplicate(p, h, a)
    \/ \E p \in DupPaths, h \in DupHashes : GetDuplicateInfo(p, h)

\* the call repeats the one before it: same operation, same arguments
RepeatsLastCall ==
    /\ dup_result.op \in {"is_duplicate", "get_duplicate_info"}
    /\ dup_result'.op = dup_result.op
    /\ dup_result'.path = dup_result.path
    /\ dup_result'.hash = dup_result.hash
    /\ dup_result'.peer = dup_result.peer

\* C21: is_duplicate and get_duplicate_info are read-only.  A call leaves the
\* in-memory store as it was, with the same keys (no key is created for an
\* unknown file), and leaves DUPLICATES_FILE as it was; a call that repeats the
\* call before it, with no add_file_hash or clear_duplicates in between,
\* returns the same result.
C21_QueriesReadOnly ==
    [][QueryStep =>
          /\ DOMAIN file_hashes' = DOMAIN file_hashes
          /\ file_hashes' = file_hashes
          /\ duplicates_file' = duplicates_file
          /\ load_duplicates(duplicates_file') = load_duplicates(duplicates_file)
          /\ RepeatsLastCall => dup_result' = dup_result]_vars

\* an unknown file was looked up in a store that holds records of another
\* file, on disk too, and the look-up found nothing and left no key behind
C21_Witness ==
    /\ dup_result.op = "is_duplicate"
    /\ ~dup_result.found
    /\ DupKey(dup_result.path, dup_result.hash) \notin DOMAIN file_hashes
    /\ file_hashes # << >>
    /\ duplicates_file.exists
    /\ load_duplicates(duplicates_file) = file_hashes


\* no query finds anything in the store
AnswersNothing(store) ==
    /\ \A p \in DupPaths, h \in DupHashes, a \in DupPeers :
          /\ ~is_duplicate(store, p, h, a).found
          /\ is_duplicate(store, p, h, a).entry = NoEntry
    /\ \A p \in DupPaths, h \in DupHashes : get_duplicate_info(store, p, h) = <<>>

\* C22, as stated: after clear_duplicates the store holds no record,
\* is_duplicate is false and get_duplicate_info is empty for every file and
\* peer, and the persisted index is the empty store, whatever was recorded
\* before.
C22_Original ==
    dup_result.op = "clear_duplicates" =>
        /\ file_hashes = << >>
        /\ AnswersNothing(file_hashes)
        /\ load_duplicates(duplicates_file) = << >>

\* C22, amended: after clear_duplicates the store holds no record and no query
\* finds anything; DUPLICATES_FILE holds the empty store when the write went
\* through, and is left as it was, records included, when open raised.
C22_ClearEmpties ==
    [][ClearDuplicates =>
          /\ file_hashes' = << >>
          /\ DOMAIN file_hashes' = {}
          /\ AnswersNothing(file_hashes')
          /\ ~dup_result'.raised
          /\ duplicates_file.fs = "ok" =>
                /\ duplicates_file'.exists /\ duplicates_file'.whole
                /\ duplicates_file'.data = << >>
                /\ load_duplicates(duplicates_file') = << >>
          /\ duplicates_file.fs = "readonly" => duplicates_file' = duplicates_file]_vars

\* a store was cleared and the empty store is what the file holds
C22_Witness ==
    /\ dup_result.op = "clear_duplicates"
    /\ file_hashes = << >>
    /\ duplicates_file.exists /\ duplicates_file.whole
    /\ duplicates_file.data = << >>
    /\ duplicates_file.fs = "ok"


\* a call of add_file_hash
AddStep == \E p \in DupPaths, h \in DupHashes, a \in DupPeers : AddFileHash(p, h, a)

\* C23: after add_file_hash or clear_duplicates whose write goes through,
\* DUPLICATES_FILE loads as the in-memory store, same keys and same records;
\* when the write fails the call still returns normally and the store keeps
\* the mutation: the new record is the last under its key, or the store is
\* empty.
C23_PersistedIsStore ==
    [][AddStep \/ ClearDuplicates =>
          /\ ~dup_result'.raised
          /\ duplicates_file.fs = "ok" =>
                /\ DOMAIN load_duplicates(duplicates_file') = DOMAIN file_hashes'
                /\ load_duplicates(duplicates_file') = file_hashes'
          /\ AddStep =>
                LET list == file_hashes'[DupKey(dup_result'.path, dup_result'.hash)]
                IN  /\ list[Len(list)].path = dup_result'.path
                    /\ list[Len(list)].hash = dup_result'.hash
                    /\ list[Len(list)].peer = dup_result'.peer
          /\ ClearDuplicates => file_hashes' = << >>]_vars

\* a record was added while the disk was full: the store has it, the file is
\* cut short and loads as the empty store
C23_Witness ==
    /\ dup_result.op = "add_file_hash"
    /\ ~dup_result.raised
    /\ duplicates_file.fs = "full"
    /\ ~duplicates_file.whole
    /\ DupKey(dup_result.path, dup_result.hash) \in DOMAIN file_hashes
    /\ load_duplicates(duplicates_file) = << >>


\* the record thread t added is in the store
Left(t) ==
    \E i \in 1..Len(StoredUnder(CallKey(t))) :
        StoredUnder(CallKey(t))[i].path = CallPath(t)

\* C24, as stated: the DuplicateManager calls of concurrent sessions are
\* serialized by one mutex: in every interleaving each add_file_hash call that
\* returned has left its record, also when the key is at the cap and being
\* trimmed, and a query never sees a half-applied mutation, that is a key with
\* more than DUP_CAP records.
C24_Original ==
    /\ \A t \in DupThreads : dup_thread[t].pc = "done" => Left(t)
    /\ dup_result.op = "get_duplicate_info" => Len(dup_result.list) <= DUP_CAP


\* the places of thread t's record in the history
PlacesOf(t) == {i \in 1..Len(history) : history[i] = HistRecord(t)}

\* C25, as stated: _add_history calls of concurrent sessions are serialized:
\* in every interleaving each call that returned has left its record in the
\* history exactly once, also when the history is at its cap and is being
\* trimmed to the newest entries.
C25_Original ==
    \A t \in DupThreads :
        hist_thread[t].pc = "done" => Cardinality(PlacesOf(t)) = 1


\* a job that sent the selection to the peer has recorded status OK; of a
\* thread that has ended only the history record is left, and its peer was the
\* one peer there is
SentOK(target_ip) ==
    \E j \in JobIds :
        /\ IF send[j].pc = "Dead" THEN Targets = {target_ip}
                                  ELSE send[j].target = target_ip
        /\ \E i \in 1..Len(history) :
              history[i].direction = "Send" /\ history[i].who = j /\ history[i].status = "OK"

\* is_duplicate is true for every selected file and the peer, with a record of
\* that file and peer
ReportedFor(target_ip) ==
    \A i \in 1..Len(gather_files_for_send) :
        LET f == gather_files_for_send[i]
            r == is_duplicate(file_hashes, f.path, f.sha256, target_ip)
        IN  /\ r.found
            /\ r.entry.path = f.path
            /\ r.entry.hash = f.sha256
            /\ r.entry.peer = target_ip

\* is_duplicate is false for every selected file and the peer
NotReportedFor(target_ip) ==
    \A i \in 1..Len(gather_files_for_send) :
        LET f == gather_files_for_send[i]
        IN  ~is_duplicate(file_hashes, f.path, f.sha256, target_ip).found

\* C26: once a job has sent the selection to a peer and recorded OK, a further
\* start_transfer of the same selection to that peer finds is_duplicate true
\* for each file, with the earlier record; when the user answers no to the
\* warning nothing is enqueued or started, and the same selection is not
\* reported as a duplicate for a peer it was never sent to.
C26_SecondSendWarns ==
    /\ [](/\ \A t \in Targets : SentOK(t) => ReportedFor(t)
          /\ \A t \in DupPeers \ Targets : NotReportedFor(t))
    /\ [][\A t \in Targets :
             SentOK(t) /\ submitted' # submitted => ~start_transfer(t, FALSE)]_vars

\* the first job has sent a selection of files and recorded OK, nothing else
\* has been submitted and nothing is queued or active: the user presses Send
\* again
C26_Witness ==
    /\ SentOK("p1")
    /\ Len(selected_paths) > 0
    /\ submitted = 1
    /\ transfer_queue = <<>>
    /\ Running = {}


\* job j takes the step in which it calls add_file_hash
AddsRecord(j) ==
    /\ send[j].pc = "AddDup"
    /\ send'[j] # send[j]
    /\ file_hashes' # file_hashes

\* C27, as stated: the sender adds a record for a file only after all bytes of
\* that file have been written to the connection: the chunk loop was left on
\* the empty read, not on the cancel test.
C27_Original ==
    [][\A j \in JobIds : AddsRecord(j) => send[j].sent = send[j].flen]_vars


\* job j has recorded status Error
Failed(j) ==
    \E i \in 1..Len(history) :
        history[i].direction = "Send" /\ history[i].who = j /\ history[i].status = "Error"

\* C28: a send job in which the connect, a read or a write raised has recorded
\* Error, once, and is at its finally block or has ended with its socket
\* closed; after the failure it writes no byte.  The step in which it fails
\* changes no other job, nor the queue, the active set, the timer or the
\* flags, so that the other jobs are dispatched and finish as they would.
C28_ErrorEndsOneJob ==
    /\ [](\A j \in JobIds :
             Failed(j) =>
                 /\ Recorded(j) = 1
                 /\ send[j].pc \in {"Finally", "Dead"}
                 /\ send[j].pc = "Dead" => send[j].conn \in {"closed", "unconnected"})
    /\ [][\A j \in JobIds :
             /\ Failed(j) /\ send[j].pc = "Finally" =>
                    \/ send'[j] = send[j]
                    \/ send'[j] = [Dead EXCEPT !.conn = send'[j].conn]
             /\ Failed(j)' /\ ~Failed(j) =>
                    /\ \A k \in JobIds \ {j} : send'[k] = send[k]
                    /\ send'[j].wrote = send[j].wrote
                    /\ UNCHANGED <<transfer_queue, current_transfers, after_checks,
                                   submitted, flagVars>>]_vars

\* the first job failed and recorded Error first; the two other jobs, one of
\* them dispatched from the queue, have sent their files and recorded OK
C28_Witness ==
    /\ Len(history) = 3
    /\ history[1] = [direction |-> "Send", who |-> 1, status |-> "Error",
                     verified |-> "none"]
    /\ \A j \in {2, 3} : \E i \in 2..3 : history[i].who = j /\ history[i].status = "OK"
    /\ \A j \in JobIds : send[j].pc = "Dead"
    /\ Len(selected_paths) > 0


\* what is still to come of the scans under way: every sendto the
\* broadcasting threads have yet to make, with the copies it puts in flight
\* and their answers, every announcement in flight with its answer, every
\* response in flight
RECURSIVE ToSend(_)
ToSend(ds) ==
    IF ds = {} THEN 0
    ELSE LET d == CHOOSE x \in ds : TRUE
         IN  device[d].left * (1 + 2 * Cardinality(Devices)) + ToSend(ds \ {d})

ToCome ==
    ToSend(Devices)
    + 2 * Cardinality({m \in datagrams : m.kind = Announcement})
    + Cardinality({m \in datagrams : m.kind # Announcement})

\* a step of a broadcasting thread, of a listener or of the network, not one
\* that starts a scan or brings in a datagram from elsewhere
ExchangeStep ==
    /\ <<datagrams, sent>>' # <<datagrams, sent>>
    /\ Scans(Devices)' = Scans(Devices)
    /\ \A m \in datagrams' \ datagrams : m.n # 0

\* C29: a listener sends a datagram only in the step in which it receives an
\* announcement, the response to its sender, and sends nothing in a step in
\* which it receives a response.  So one scan causes a bounded number of
\* sendto calls, its own and one answer per copy received, and every step of
\* the exchange brings it nearer to its end: there is no ping-pong.
C29_NoPingPong ==
    /\ [](sent <= Scans(Devices) * Burst * (1 + Cardinality(Devices)) + MaxStray)
    /\ [][/\ \A r \in datagrams' \ datagrams :
                r.kind = Response /\ r.n # 0 =>
                    \E a \in datagrams \ datagrams' :
                        /\ a.kind = "GOODLUCK_DISCOVERY:"
                        /\ a.dport = "discovery_port"
                        /\ a.rcpt = r.src /\ a.src = r.rcpt /\ a.sport = r.dport
          /\ (\E r \in datagrams \ datagrams' : r.kind = Response) =>
                datagrams' \subseteq datagrams /\ sent' = sent
          /\ ExchangeStep => ToCome' < ToCome]_vars

\* v2.1: one scan is over, all its datagrams were sent and answered by both
\* listeners, and a response that came to a discovery port was taken into the
\* table there; nothing is in flight
C29_Witness ==
    /\ revision = "v2"
    /\ datagrams = {}
    /\ sent = PROBE_REPEATS * (1 + Cardinality(Devices)) + 1
    /\ \E d \in Devices : \E x \in DOMAIN device[d].discovered_devices :
          device[d].discovered_devices[x] = "Other-" \o x


\* the peer table of device d
Table(d) == device[d].discovered_devices

\* the scan of p is over: every datagram was sent, and none of its datagrams
\* or of the answers to them is in flight
ScanOver(p) ==
    /\ device[p].rounds > 0
    /\ device[p].left = 0
    /\ \A m \in datagrams : m.n = 0

\* C30, as stated: a listener that receives an announcement or a response from
\* another address has the sender in its peer table afterwards, under the name
\* in the datagram; after a scan every listening peer that received the
\* announcement is in the table of the device that scanned; and no peer table
\* contains the device's own address.
C30_Original ==
    /\ [](\A p \in Devices :
             /\ p \notin DOMAIN Table(p)
             /\ ScanOver(p) =>
                   \A d \in Devices \ {p} :
                       (p \in DOMAIN Table(d) /\ Table(d)[p] = device[p].message)
                           => d \in DOMAIN Table(p))
    /\ [][\A m \in datagrams \ datagrams' :
             (m.dport = "discovery_port" /\ m.src # m.rcpt) =>
                 /\ m.src \in DOMAIN Table(m.rcpt)'
                 /\ Table(m.rcpt)'[m.src] = m.name]_vars


\* the broadcast addresses one scan sends to: 255.255.255.255 in v2.1, the
\* entries of networks in v3.0
Addresses == IF revision = "v2" THEN 1 ELSE PROBE_NETWORKS

\* C31, as stated: a scan makes exactly 3 sendto calls for each broadcast
\* address, whether or not a call fails, and none after them; while a scan is
\* in progress no further burst is started and nothing leaves the peer table.
C31_Original ==
    [][\A d \in Devices :
          /\ device'[d].rounds # device[d].rounds =>
                device'[d].left = PROBE_REPEATS * Addresses
          /\ device'[d].rounds = device[d].rounds =>
                /\ device'[d].left \in {device[d].left, device[d].left - 1}
                /\ device'[d].left # device[d].left => sent' = sent + 1
          /\ device[d].left = 0 =>
                \A m \in datagrams' \ datagrams :
                    ~(m.src = d /\ m.kind = Announcement /\ m.n # 0)
          /\ device[d].is_discovering =>
                /\ device'[d].rounds = device[d].rounds
                /\ DOMAIN Table(d) \subseteq DOMAIN Table(d)']_vars


\* a datagram that is not of the format of section 6: its tag is not one of
\* the two, or is missing, or what follows is not the text of a JSON object
MalformedDatagram(m) ==
    \/ m.kind \notin {"GOODLUCK_DISCOVERY:", "GOODLUCK_RESPONSE:"}
    \/ m.payload # "object"

\* C32, as stated: the step in which a listener receives a malformed datagram
\* changes no peer table and sends nothing, and a well-formed datagram from
\* another address is taken into the table whatever came before it.
C32_Original ==
    [][\A m \in datagrams \ datagrams' :
          m.dport = "discovery_port" =>
              IF MalformedDatagram(m)
              THEN /\ device' = device
                   /\ datagrams' = datagrams \ {m}
                   /\ sent' = sent
              ELSE m.src # m.rcpt =>
                       /\ m.src \in DOMAIN Table(m.rcpt)'
                       /\ Table(m.rcpt)'[m.src] = m.name]_vars


\* the engine's part of the settings
Engine == <<settings.CHUNK_SIZE, settings.MAX_CONCURRENT_TRANSFERS, settings.max_workers>>

\* the texts of Texts that are the decimal writing of an integer, and the integer
Written10 ==
    {<<<<"-", "1">>, 0 - 1>>, <<<<"0">>, 0>>, <<<<"1">>, 1>>, <<<<" ", "7", " ">>, 7>>,
     <<<<"1", "0">>, 10>>, <<<<"1", "1">>, 11>>, <<<<"1", "_", "0">>, 10>>,
     <<<<"4">>, 4>>, <<<<"5", "1", "2">>, 512>>,
     <<<<"1", "0", "2", "4", "0">>, 10240>>, <<<<"1", "0", "2", "4", "1">>, 10241>>}

\* the integers a text is accepted for, between lo and hi: one or none
Accepted(text, lo, hi) ==
    {w[2] : w \in {x \in Written10 : x[1] = text /\ lo <= x[2] /\ x[2] <= hi}}

\* C33: applying a text that is not an integer, or an integer outside 1..10240
\* (KB) for the chunk size or outside 1..10 for the concurrency, leaves
\* CHUNK_SIZE, MAX_CONCURRENT_TRANSFERS and the size of the pool as they
\* were and shows the error; applying a valid one sets CHUNK_SIZE to that many
\* KB, or MAX_CONCURRENT_TRANSFERS and the pool size to that number, and leaves
\* the other setting as it was.
C33_InvalidRejected ==
    [][/\ apply_performance_settings =>
             LET ok == Accepted(settings.chunk_size_var, 1, 10240)
             IN  IF ok = {}
                 THEN Engine' = Engine /\ settings'.dialog = "showerror"
                 ELSE settings' = [settings EXCEPT
                          !.CHUNK_SIZE = 1024 * (CHOOSE k \in ok : TRUE),
                          !.dialog = "showinfo"]
       /\ apply_concurrent_settings =>
             LET ok == Accepted(settings.concurrent_var, 1, 10)
             IN  IF ok = {}
                 THEN Engine' = Engine /\ settings'.dialog = "showerror"
                 ELSE settings' = [settings EXCEPT
                          !.MAX_CONCURRENT_TRANSFERS = CHOOSE k \in ok : TRUE,
                          !.max_workers = CHOOSE k \in ok : TRUE,
                          !.dialog = "showinfo"]]_vars

\* both settings were changed from what they started as, then 11 was applied
\* as the concurrency and 10241 KB as the chunk size, and the error was shown
C33_Witness ==
    /\ settings.dialog = "showerror"
    /\ settings.concurrent_var = <<"1", "1">>
    /\ settings.chunk_size_var = <<"1", "0", "2", "4", "1">>
    /\ settings.CHUNK_SIZE = 10240 * 1024
    /\ settings.MAX_CONCURRENT_TRANSFERS = 10
    /\ settings.max_workers = 10


\* a session in a recv that its peer, silent and connected, leaves waiting
Waits(r) == HeaderWaits(r) \/ BodyWaits(r)

\* C34, as stated: a session whose peer has stopped sending and keeps the
\* connection open, be it in the 4-byte length, the metadata or a file body,
\* has a timeout running, and when it runs out the session records a failed
\* job and closes: the next thing the session does is the failure record.
C34_Original ==
    /\ [](\A s \in DOMAIN recv :
             Waits(recv[s]) /\ recv[s].waited < MaxTimeouts => ENABLED RecvTimeout(s))
    /\ [][\A s \in DOMAIN recv :
             Waits(recv[s]) /\ recv'[s] # recv[s] =>
                 /\ recv'[s].pc = "Finally"
                 /\ history' = add_history(history, "Receive", s, StatusFailed, "none")]_vars


\* where a worker is between the cancel test of the chunk loop and the end of
\* sendall
PastCancelTest == {"PauseWait", "SendChunk"}

\* job j writes file bytes to its connection in this step
WritesChunk(j) ==
    /\ send'[j].pc # "Dead"
    /\ \E i \in 1..Len(send[j].wrote) : send'[j].wrote[i] # send[j].wrote[i]

\* C35: with the cancel flag set, a job writes file bytes only if it had
\* passed the cancel test of the chunk loop before, whether it waited in the
\* pause loop or not; what it writes is the one chunk it read, whole; and
\* after it, or from anywhere else, it does not come past the cancel test
\* again: at most one more chunk for each job.
C35_OneMoreChunk ==
    [][\A j \in JobIds :
          transfer_cancelled =>
              /\ send[j].pc \notin PastCancelTest =>
                    ~WritesChunk(j) /\ send'[j].pc \notin PastCancelTest
              /\ WritesChunk(j) =>
                    /\ send[j].pc = "SendChunk"
                    /\ send'[j].pc = "ChunkCheck"
                    /\ send'[j].wrote =
                          [send[j].wrote EXCEPT ![send[j].idx] = @ + 1]]_vars

\* cancel was set with pause on: one worker waits in the pause loop, the
\* other had left it and is about to write the chunk it is to read
C35_Witness ==
    \E j, k \in JobIds :
        /\ transfer_cancelled
        /\ transfer_paused
        /\ send[j].pc = "PauseWait"
        /\ send[k].pc = "SendChunk"
        /\ send[k].sent < send[k].flen

\* C36, as stated: a worker that waits in the pause loop when cancel is set
\* observes the flag there and goes on to its end without a resume: it is
\* never left with no step to take.
C36_Original ==
    \A j \in JobIds :
        (transfer_cancelled /\ transfer_paused /\ send[j].pc = "PauseWait")
            => ENABLED SendPauseWait(j)


\* the state of section 4.5 a job is in: 1 Queued, 2 Connecting, 3
\* SendingMetadata, 4 Transferring, 5 past the file loop and before its
\* record, 6 terminal (recorded as Completed, Cancelled or Failed)
StateOf(job) ==
    CASE job.pc = "None" -> 0
      [] job.pc = "Queued" -> 1
      [] job.pc = "Connecting" -> 2
      [] job.pc = "SendingMetadata" -> 3
      [] job.pc \in {"ChunkCheck", "PauseWait", "SendChunk", "AddDup"} -> 4
      [] job.pc \in {"FinalCheck", "RecordOK"} -> 5
      [] job.pc \in {"Finally", "Dead"} -> 6

\* C37: a job goes from each state to the next one in the order Queued,
\* Connecting, SendingMetadata, Transferring, or from Connecting on to its
\* end, and never back (start_transfer puts a job in the empty queue and
\* takes it out again when a worker is free); it writes the manifest in SendingMetadata, on an open
\* connection, and file bytes only in Transferring with the manifest written;
\* it comes to its terminal state with exactly one record, OK, Cancelled or
\* Error, and from then on writes nothing, records nothing and stays there.
C37_StateOrder ==
    [][\A j \in JobIds :
          LET before == StateOf(send[j])
              after == StateOf(send'[j])
          IN  /\ \/ after = before
                 \/ after = before + 1
                 \/ before = 0 /\ after = 2 /\ submitted' = j /\ transfer_queue = <<>>
                 \/ before >= 2 /\ after >= 5
              /\ after >= before
              /\ send'[j].meta # send[j].meta /\ before < 6 =>
                    before = 3 /\ send[j].conn = "open" /\ send'[j].meta
              /\ WritesChunk(j) => before = 4 /\ send[j].meta
              /\ before < 6 /\ after = 6 =>
                    /\ Recorded(j) = 0
                    /\ Recorded(j)' = 1
                    /\ RecordsOf("Send", j)'[1].status \in {"OK", "Cancelled", "Error"}
              /\ before < 6 /\ after < 6 => Recorded(j)' = 0
              /\ before = 6 =>
                    /\ ~WritesChunk(j)
                    /\ RecordsOf("Send", j)' = RecordsOf("Send", j)]_vars

\* three jobs have ended, one in each terminal state
C37_Witness ==
    /\ \A j \in JobIds : send[j].pc = "Dead"
    /\ \E a, b, c \in JobIds :
          /\ RecordsOf("Send", a)[1].status = "OK"
          /\ RecordsOf("Send", b)[1].status = "Cancelled"
          /\ RecordsOf("Send", c)[1].status = "Error"


\* the session has been through its files list and verified every entry
VerifiedAll(r) ==
    /\ r.pc = "Complete"
    /\ r.files # <<>>
    /\ r.idx > Len(r.files)
    /\ r.verified_count = Len(r.files)

\* C38, as stated: no step of a session, be it the answer to the overwrite
\* question or a failure, stops the server from accepting; and a session that
\* has received and verified all its files records the success status with
\* its own verified count, whatever the other sessions did.
C38_Original ==
    [][\A s \in SessionIds :
          /\ recv'[s] # recv[s] => is_listening' = is_listening
          /\ VerifiedAll(recv[s]) /\ recv'[s].pc = "Finally" =>
                history' = add_history(history, "Receive", s, StatusOK,
                               <<recv[s].verified_count, recv[s].total_files>>)]_vars


\* C39, as stated: in the record a session has just written with a verified
\* ratio, the count is at most the total beside it, and the total is the
\* number of entries of the files list the session received.
C39_Original ==
    \A s \in SessionIds :
        recv[s].pc = "Finally" =>
            \A i \in 1..Len(history) :
                (/\ history[i].direction = "Receive"
                 /\ history[i].who = s
                 /\ history[i].status = StatusOK) =>
                    /\ history[i].verified[1] <= history[i].verified[2]
                    /\ history[i].verified[2] = Len(recv[s].files)

====
